---- MODULE Spec2Model ----
(***************************************************************************)
(* State machine of the star-fee-distribution program: the CrankState day  *)
(* lifecycle, the fee-split and per-investor payout arithmetic, the close  *)
(* and remainder routing, and the deposit / withdraw stake ledger that      *)
(* supplies the locked balances.  Every instruction is one atomic action;  *)
(* a failing instruction is rolled back by the runtime, so it changes only *)
(* the record `last` that observes the outcome returned to the caller.     *)
(***************************************************************************)
EXTENDS Integers, FiniteSets, Sequences, TLC

\* ------------------------------------------------------------------ bounds
\* Value above which a checked addition on a u64 field fails (2^64 - 1 in
\* the program; lowered so that the amounts stay finite and the overflow
\* branches can be reached).
U64_MAX == 2047
\* Value above which a checked addition on a u32 counter fails (2^32 - 1 in
\* the program).
U32_MAX == 2
\* Latest clock value the model lets time advance to.
MaxNow == 86401
\* Largest balance the AMM claims may bring the quote fee vault to.
MaxQuoteVault == 2000
\* Largest locked total the modelled deposits may build up.
MaxLocked == 2000
\* Value above which a checked addition on a lamport field fails (2^64 - 1
\* in the program); lamport amounts are a thousand times those of the quote
\* token, so their lowered maximum is too.
U64_MAX_LAMPORTS == 2047000
\* Largest total of SOL the modelled deposits may build up.
MaxLockedSol == 2000000

\* --------------------------------------------------------- program constants
DEFAULT_MIN_PAYOUT_LAMPORTS == 10000
MIN_USDC_DEPOSIT == 1000
MIN_SOL_DEPOSIT == 1000000
U16_MODULUS == 65536

\* ------------------------------------------------------------------- inputs
Investors == {"i1", "i2"}
PageIndexes == 0 .. U32_MAX
InvestorsCounts == {1, 2}
ClockSteps == {86399, 86400}
UsdcAmounts == {1000}
SolAmounts == {0}
QuoteClaims == {2000}
BaseClaims == {0, 1}
CpiOutcomes == {TRUE}
SweepAmounts == {0}
OtherFees == {2000}
Mints == {"quote", "other"}
ForeignVaultAmounts == {1000}
ConfigOf(y, s, m, c, w, q) ==
    [y0_allocation |-> y, investor_fee_share_bps |-> s, min_payout_lamports |-> m,
     daily_cap_lamports |-> c, creator_wallet |-> w, quote_mint |-> q]
ConfigParams ==
    { ConfigOf(2000, 5000, 1000, 0, "creator", "quote"),
      ConfigOf(2000, 10000, 1000, 1000, "creator", "quote"),
      ConfigOf(0, 5000, 1000, 0, "creator", "quote"),
      ConfigOf(2000, 10001, 1000, 0, "creator", "quote"),
      ConfigOf(2000, 5000, 1000, 0, "default", "quote"),
      ConfigOf(2000, 5000, 1000, 0, "creator", "default") }

VARIABLES
    now,                    \* Clock::get()?.unix_timestamp
    distribution_config,    \* DistributionConfig account
    crank_state,            \* CrankState account
    vault_stats,            \* VaultStats account
    depositor_record,       \* DepositorRecord account of every investor
    sol_vault,              \* lamports deposited in the SOL vault
    usdc_vault,             \* deposit vault token balance
    program_token_a_vault,  \* base-token fee vault balance
    program_token_b_vault,  \* quote-token fee vault balance
    day_open,               \* what the page call that opened the day observed and emitted,
                            \* and the quote fees claimed into the vault since
    last                    \* outcome of the most recent instruction (error code, emitted event)

vars == <<now, distribution_config, crank_state, vault_stats, depositor_record, sol_vault,
          usdc_vault, program_token_a_vault, program_token_b_vault, day_open, last>>

\* ------------------------------------------------------------ u64 / u32 maths
None == -1

checked_add_Wrapping(a, b, max) == (a + b) % (max + 1)

checked_add(a, b, max) == IF a + b > max THEN None ELSE a + b

checked_sub(a, b) == IF a < b THEN None ELSE a - b

Min(a, b) == IF a < b THEN a ELSE b

\* --------------------------------------------------------------- CrankState
CrankStateNew ==
    [last_distribution_timestamp |-> 0, current_day |-> 0, distribution_count |-> 0,
     pagination_cursor |-> 0, investors_processed_today |-> 0, daily_distributed |-> 0,
     carry_over |-> 0, day_state |-> 0]

is_day_in_progress_OrClosed(cs) == cs.day_state \in {1, 2}

is_day_in_progress(cs) == cs.day_state = 1

is_day_closed_Never(cs) == FALSE

is_day_closed(cs) == cs.day_state = 2

can_start_new_day(cs, clock) ==
    LET time_since_last == clock - cs.last_distribution_timestamp
    IN  time_since_last >= 86400 \/ cs.last_distribution_timestamp = 0

start_new_day_KeepCounters(cs, clock) ==
    IF ~can_start_new_day(cs, clock)
    THEN [err |-> "DistributionTooFrequent", cs |-> cs]
    ELSE IF checked_add(cs.current_day, 1, U32_MAX) = None
    THEN [err |-> "MathOverflow", cs |-> [cs EXCEPT !.last_distribution_timestamp = clock]]
    ELSE [err |-> "Ok",
          cs |-> [cs EXCEPT !.last_distribution_timestamp = clock,
                            !.current_day = cs.current_day + 1,
                            !.day_state = 1]]

start_new_day_SameDay(cs, clock) ==
    IF ~can_start_new_day(cs, clock)
    THEN [err |-> "DistributionTooFrequent", cs |-> cs]
    ELSE [err |-> "Ok",
          cs |-> [cs EXCEPT !.last_distribution_timestamp = clock,
                            !.pagination_cursor = 0,
                            !.investors_processed_today = 0,
                            !.daily_distributed = 0,
                            !.day_state = 1]]

start_new_day(cs, clock) ==
    IF ~can_start_new_day(cs, clock)
    THEN [err |-> "DistributionTooFrequent", cs |-> cs]
    ELSE IF checked_add(cs.current_day, 1, U32_MAX) = None
    THEN [err |-> "MathOverflow", cs |-> [cs EXCEPT !.last_distribution_timestamp = clock]]
    ELSE [err |-> "Ok",
          cs |-> [cs EXCEPT !.last_distribution_timestamp = clock,
                            !.current_day = cs.current_day + 1,
                            !.pagination_cursor = 0,
                            !.investors_processed_today = 0,
                            !.daily_distributed = 0,
                            !.day_state = 1]]

advance_cursor_ByCount(cs, investors_processed) ==
    IF checked_add(cs.pagination_cursor, investors_processed, U32_MAX) = None
    THEN [err |-> "MathOverflow", cs |-> cs]
    ELSE IF checked_add(cs.investors_processed_today, investors_processed, U32_MAX) = None
    THEN [err |-> "MathOverflow", cs |-> cs]
    ELSE [err |-> "Ok",
          cs |-> [cs EXCEPT !.pagination_cursor = cs.pagination_cursor + investors_processed,
                            !.investors_processed_today =
                                cs.investors_processed_today + investors_processed]]

advance_cursor(cs, investors_processed) ==
    IF checked_add(cs.pagination_cursor, 1, U32_MAX) = None
    THEN [err |-> "MathOverflow", cs |-> cs]
    ELSE IF checked_add(cs.investors_processed_today, investors_processed, U32_MAX) = None
    THEN [err |-> "MathOverflow",
          cs |-> [cs EXCEPT !.pagination_cursor = cs.pagination_cursor + 1]]
    ELSE [err |-> "Ok",
          cs |-> [cs EXCEPT !.pagination_cursor = cs.pagination_cursor + 1,
                            !.investors_processed_today =
                                cs.investors_processed_today + investors_processed]]

close_day_Uncounted(cs) == [err |-> "Ok", cs |-> [cs EXCEPT !.day_state = 2]]

close_day_AdvancingDay(cs) ==
    IF checked_add(cs.distribution_count, 1, U32_MAX) = None
    THEN [err |-> "MathOverflow", cs |-> [cs EXCEPT !.day_state = 2]]
    ELSE [err |-> "Ok",
          cs |-> [cs EXCEPT !.day_state = 2,
                            !.distribution_count = cs.distribution_count + 1,
                            !.current_day = cs.current_day + 1]]

close_day_ClearingCarryOver(cs) ==
    IF checked_add(cs.distribution_count, 1, U32_MAX) = None
    THEN [err |-> "MathOverflow", cs |-> [cs EXCEPT !.day_state = 2]]
    ELSE [err |-> "Ok",
          cs |-> [cs EXCEPT !.day_state = 2,
                            !.distribution_count = cs.distribution_count + 1,
                            !.carry_over = 0]]

close_day(cs) ==
    IF checked_add(cs.distribution_count, 1, U32_MAX) = None
    THEN [err |-> "MathOverflow", cs |-> [cs EXCEPT !.day_state = 2]]
    ELSE [err |-> "Ok",
          cs |-> [cs EXCEPT !.day_state = 2,
                            !.distribution_count = cs.distribution_count + 1]]

\* ------------------------------------------------------- fee-split arithmetic
\* The `as u16` cast wraps modulo 2^16.  The `as u64` casts of the u128
\* intermediates keep their value: each is at most its u64 operand as long as
\* the basis-point factor is at most 10000.
f_locked_bps(locked_total, y0_allocation) ==
    IF y0_allocation > 0
    THEN ((locked_total * 10000) \div y0_allocation) % U16_MODULUS
    ELSE 0

eligible_investor_share_bps(cfg, locked_total) ==
    Min(cfg.investor_fee_share_bps, f_locked_bps(locked_total, cfg.y0_allocation))

investor_fee_quote(cfg, locked_total, quote_fees_available) ==
    (quote_fees_available * eligible_investor_share_bps(cfg, locked_total)) \div 10000

calculate_investor_payout_Inclusive(investor_balance, total_locked, total_investor_fee, min_payout) ==
    LET weight_bps == IF total_locked > 0
                      THEN (investor_balance * 10000) \div total_locked
                      ELSE 0
        payout == (total_investor_fee * weight_bps) \div 10000
    IN  IF payout <= min_payout
        THEN [payout |-> 0, dust |-> payout]
        ELSE [payout |-> payout, dust |-> 0]

calculate_investor_payout_Percent(investor_balance, total_locked, total_investor_fee, min_payout) ==
    LET weight_pct == IF total_locked > 0
                      THEN (investor_balance * 100) \div total_locked
                      ELSE 0
        payout == (total_investor_fee * weight_pct) \div 100
    IN  IF payout < min_payout
        THEN [payout |-> 0, dust |-> payout]
        ELSE [payout |-> payout, dust |-> 0]

calculate_investor_payout_FullWeight(investor_balance, total_locked, total_investor_fee, min_payout) ==
    LET weight_bps == IF total_locked > 0
                      THEN (investor_balance * 10000) \div total_locked
                      ELSE 10000
        payout == (total_investor_fee * weight_bps) \div 10000
    IN  IF payout < min_payout
        THEN [payout |-> 0, dust |-> payout]
        ELSE [payout |-> payout, dust |-> 0]

calculate_investor_payout(investor_balance, total_locked, total_investor_fee, min_payout) ==
    LET weight_bps == IF total_locked > 0
                      THEN (investor_balance * 10000) \div total_locked
                      ELSE 0
        payout == (total_investor_fee * weight_bps) \div 10000
    IN  IF payout < min_payout
        THEN [payout |-> 0, dust |-> payout]
        ELSE [payout |-> payout, dust |-> 0]

\* ------------------------------------------------------------------ i32 maths
I32_MAX == 2147483647
I32_MIN == -I32_MAX - 1

\* a - b leaves the range of i32.
i32_sub_overflows(a, b) ==
    IF b < 0 THEN a > I32_MAX + b ELSE a < I32_MIN + b

\* a - b modulo 2^32, as a two's complement i32.
i32_wrapping_sub(a, b) ==
    IF ~i32_sub_overflows(a, b) THEN a - b
    ELSE IF b < 0 THEN (a - I32_MAX - 1) + (I32_MIN - b)
    ELSE (a - I32_MIN) + (I32_MAX - b) + 1

\* The operator `-` on i32: with overflow checks compiled in it panics when
\* the difference leaves the range, without them it wraps.
i32_sub(a, b, overflow_checks) ==
    IF overflow_checks /\ i32_sub_overflows(a, b)
    THEN [panic |-> TRUE, value |-> 0]
    ELSE [panic |-> FALSE, value |-> i32_wrapping_sub(a, b)]

\* --------------------------------------------------- HonoraryPositionConfig
HonoraryPositionConfigOf(base_weight_bps, quote_weight_bps, lower_tick, upper_tick, fee_tier) ==
    [base_weight_bps |-> base_weight_bps, quote_weight_bps |-> quote_weight_bps,
     lower_tick |-> lower_tick, upper_tick |-> upper_tick, fee_tier |-> fee_tier]

NoHonoraryPositionConfig == HonoraryPositionConfigOf(0, 0, 0, 0, 0)

\* ------------------------------------------------------- observed outcomes
NoEvent ==
    [op |-> "none", err |-> "Ok", page_index |-> 0, investors_count |-> 0,
     investor_fee_quote |-> 0, investor |-> "none", total_investor_fee |-> 0,
     payout |-> 0, dust |-> 0, creator_remainder |-> 0,
     config |-> NoHonoraryPositionConfig]

Failed(op, err) == [NoEvent EXCEPT !.op = op, !.err = err]

\* `claimed` is the ledger of the quote fees claimed into the vault while the
\* day is in progress; it is kept only in the specification that audits the
\* day's flows (InitAudited) and is None elsewhere.
NoDay == [quote_fees_available |-> 0, carry_over |-> 0, investor_fee_quote |-> 0,
          claimed |-> None]

\* ------------------------------------------------- crank_fee_distribution
\* "Initialize crank state if needed": an account whose timestamp is still 0.
init_if_needed_WhenIdle(cs) ==
    IF ~is_day_in_progress(cs) THEN CrankStateNew ELSE cs

init_if_needed(cs) ==
    IF cs.last_distribution_timestamp = 0 THEN CrankStateNew ELSE cs

\* "Start new day if needed".
needs_new_day_Always(cs) == TRUE

needs_new_day(cs) == ~is_day_in_progress(cs)

\* "Validate pagination cursor".
cursor_matches_OrEarlier(page_index, cs) == page_index <= cs.pagination_cursor

cursor_matches(page_index, cs) == page_index = cs.pagination_cursor

\* "QUOTE-ONLY ENFORCEMENT: Fail if base fees detected".
quote_only_enforced_Never(base_fees_available) == TRUE

quote_only_enforced(base_fees_available) == base_fees_available = 0

\* "Check daily cap if configured": the page is refused unless some of the cap
\* is left.
cap_remaining_OrNone(remaining_cap) == remaining_cap >= 0

cap_remaining(remaining_cap) == remaining_cap > 0

\* "Check if there are quote fees to distribute".
fees_to_claim_Always(quote_fees_available) == TRUE

fees_to_claim(quote_fees_available) == quote_fees_available > 0

\* What the runtime keeps of an instruction's writes to an account: all of
\* them when the instruction returns Ok, none when it returns an error.
committed_Always(err, before, after) == after

committed(err, before, after) == IF err = "Ok" THEN after ELSE before

\* The handler on the accounts it is given: the error it returns and the
\* CrankState it leaves in memory when it returns.
CrankFeeDistributionHandle(cs0, cfg, locked_total, base_fees_available, quote_fees_available, clock, page_index, investors_count, quote_mint) ==
    LET cs1 == init_if_needed(cs0)
        opening == needs_new_day(cs1)
        started == start_new_day(cs1, clock)
        cs2 == IF opening THEN started.cs ELSE cs1
        fee == investor_fee_quote(cfg, locked_total, quote_fees_available)
        total_distributable == checked_add(fee, cs2.carry_over, U64_MAX)
        remaining_cap == checked_sub(cfg.daily_cap_lamports, cs2.daily_distributed)
        advanced == advance_cursor(cs2, investors_count)
        fail(e, cs) == [err |-> e, cs |-> cs, opened |-> FALSE, investor_fee_quote |-> 0]
    IN  IF opening /\ is_day_closed(cs1) THEN fail("DayAlreadyClosed", cs1)
        ELSE IF opening /\ started.err # "Ok" THEN fail(started.err, started.cs)
        ELSE IF ~cursor_matches(page_index, cs2) THEN fail("InvalidPaginationCursor", cs2)
        ELSE IF ~quote_only_enforced(base_fees_available) THEN fail("BaseFeesDetected", cs2)
        ELSE IF ~fees_to_claim(quote_fees_available) THEN fail("NoFeesToClaim", cs2)
        ELSE IF quote_mint # cfg.quote_mint THEN fail("InvalidPosition", cs2)
        ELSE IF total_distributable = None THEN fail("MathOverflow", cs2)
        ELSE IF cfg.daily_cap_lamports > 0 /\ remaining_cap = None
             THEN fail("DailyCapExceeded", cs2)
        ELSE IF cfg.daily_cap_lamports > 0 /\ ~cap_remaining(remaining_cap)
             THEN fail("DailyCapExceeded", cs2)
        ELSE IF advanced.err # "Ok" THEN fail(advanced.err, advanced.cs)
        ELSE [err |-> "Ok", cs |-> advanced.cs, opened |-> opening,
              investor_fee_quote |-> fee]

crank_fee_distribution(page_index, investors_count, quote_mint, foreign_amount) ==
    LET quote_fees_available == IF quote_mint = "quote" THEN program_token_b_vault
                                ELSE foreign_amount
        r == IF distribution_config.initialized /\ vault_stats.initialized
             THEN CrankFeeDistributionHandle(crank_state, distribution_config,
                      vault_stats.current_total_usdc, program_token_a_vault,
                      quote_fees_available, now, page_index, investors_count, quote_mint)
             ELSE [err |-> "AccountNotInitialized", cs |-> crank_state, opened |-> FALSE,
                   investor_fee_quote |-> 0]
    IN  /\ crank_state' = committed(r.err, crank_state, r.cs)
        /\ day_open' = IF r.err = "Ok" /\ r.opened
                       THEN [quote_fees_available |-> quote_fees_available,
                             carry_over |-> r.cs.carry_over,
                             investor_fee_quote |-> r.investor_fee_quote,
                             claimed |-> IF day_open.claimed = None THEN None ELSE 0]
                       ELSE day_open
        /\ last' = IF r.err = "Ok"
                   THEN [NoEvent EXCEPT !.op = "crank_fee_distribution",
                                        !.page_index = page_index,
                                        !.investors_count = investors_count,
                                        !.investor_fee_quote = r.investor_fee_quote]
                   ELSE Failed("crank_fee_distribution", r.err)
        /\ UNCHANGED <<now, distribution_config, vault_stats, depositor_record, sol_vault, usdc_vault,
                       program_token_a_vault, program_token_b_vault>>

\* ------------------------------------------------- distribute_to_investor
\* The CrankState account exists once a page call has succeeded: only
\* crank_fee_distribution creates it (init_if_needed), and a successful page
\* call leaves a non-zero timestamp in it.
crank_state_initialized == crank_state.last_distribution_timestamp # 0

\* "Check daily cap if configured".
within_daily_cap_Unchecked(cfg, new_total) == TRUE

within_daily_cap_Doubled(cfg, new_total) ==
    cfg.daily_cap_lamports > 0 => new_total <= 2 * cfg.daily_cap_lamports

within_daily_cap(cfg, new_total) ==
    cfg.daily_cap_lamports > 0 => new_total <= cfg.daily_cap_lamports

DistributeToInvestorHandle_CreditFirst(cs, cfg, investor_balance, total_locked, vault_amount, total_investor_fee) ==
    LET p == calculate_investor_payout(investor_balance, total_locked, total_investor_fee,
                                       cfg.min_payout_lamports)
        new_total == checked_add(cs.daily_distributed, p.payout, U64_MAX)
        fail(e) == [err |-> e, cs |-> cs, payout |-> 0, dust |-> 0]
    IN  IF ~is_day_in_progress(cs) THEN fail("DistributionNotStarted")
        ELSE IF new_total = None THEN fail("MathOverflow")
        ELSE IF ~within_daily_cap(cfg, new_total) THEN fail("DailyCapExceeded")
        ELSE IF p.payout > vault_amount
             THEN [err |-> "Ok", cs |-> [cs EXCEPT !.daily_distributed = new_total],
                   payout |-> 0, dust |-> 0]
        ELSE [err |-> "Ok", cs |-> [cs EXCEPT !.daily_distributed = new_total],
              payout |-> p.payout, dust |-> 0]

DistributeToInvestorHandle(cs, cfg, investor_balance, total_locked, vault_amount, total_investor_fee) ==
    LET p == calculate_investor_payout(investor_balance, total_locked, total_investor_fee,
                                       cfg.min_payout_lamports)
        new_total == checked_add(cs.daily_distributed, p.payout, U64_MAX)
        new_carry == checked_add(cs.carry_over, p.dust, U64_MAX)
        cs1 == IF p.payout > 0 THEN [cs EXCEPT !.daily_distributed = new_total] ELSE cs
        cs2 == IF p.dust > 0 THEN [cs1 EXCEPT !.carry_over = new_carry] ELSE cs1
        fail(e) == [err |-> e, cs |-> cs, payout |-> 0, dust |-> 0]
        fail_late(e) == [err |-> e, cs |-> cs1, payout |-> 0, dust |-> 0]
    IN  IF ~is_day_in_progress(cs) THEN fail("DistributionNotStarted")
        ELSE IF p.payout > 0 /\ cfg.daily_cap_lamports > 0 /\ new_total = None
             THEN fail("MathOverflow")
        ELSE IF p.payout > 0 /\ ~within_daily_cap(cfg, new_total)
             THEN fail("DailyCapExceeded")
        ELSE IF p.payout > 0 /\ p.payout > vault_amount THEN fail("InsufficientFunds")
        ELSE IF p.payout > 0 /\ new_total = None THEN fail("MathOverflow")
        ELSE IF p.dust > 0 /\ new_carry = None THEN fail_late("MathOverflow")
        ELSE [err |-> "Ok", cs |-> cs2, payout |-> p.payout, dust |-> p.dust]

distribute_to_investor(investor, total_investor_fee) ==
    LET r == IF distribution_config.initialized /\ vault_stats.initialized
                /\ depositor_record[investor].initialized /\ crank_state_initialized
             THEN DistributeToInvestorHandle(crank_state, distribution_config,
                      depositor_record[investor].current_usdc_balance,
                      vault_stats.current_total_usdc, program_token_b_vault,
                      total_investor_fee)
             ELSE [err |-> "AccountNotInitialized", cs |-> crank_state,
                   payout |-> 0, dust |-> 0]
    IN  /\ crank_state' = committed(r.err, crank_state, r.cs)
        /\ program_token_b_vault' = IF r.err = "Ok" THEN program_token_b_vault - r.payout
                                    ELSE program_token_b_vault
        /\ last' = IF r.err = "Ok"
                   THEN [NoEvent EXCEPT !.op = "distribute_to_investor",
                                        !.investor = investor,
                                        !.total_investor_fee = total_investor_fee,
                                        !.payout = r.payout, !.dust = r.dust]
                   ELSE Failed("distribute_to_investor", r.err)
        /\ UNCHANGED <<now, distribution_config, vault_stats, depositor_record, sol_vault, usdc_vault,
                       program_token_a_vault, day_open>>

\* ------------------------------------------------- route_creator_remainder
RouteCreatorRemainderHandle_LessCarryOver(cs, vault_amount) ==
    LET remainder == IF vault_amount >= cs.carry_over THEN vault_amount - cs.carry_over
                     ELSE 0
        closed == close_day(cs)
    IN  IF ~is_day_in_progress(cs)
        THEN [err |-> "DistributionNotStarted", cs |-> cs, remainder |-> 0]
        ELSE IF closed.err # "Ok" THEN [err |-> closed.err, cs |-> closed.cs, remainder |-> 0]
        ELSE [err |-> "Ok", cs |-> closed.cs, remainder |-> remainder]

RouteCreatorRemainderHandle_NeedsBalance(cs, vault_amount) ==
    LET remainder == vault_amount
        closed == close_day(cs)
    IN  IF ~is_day_in_progress(cs)
        THEN [err |-> "DistributionNotStarted", cs |-> cs, remainder |-> 0]
        ELSE IF ~(remainder > 0) THEN [err |-> "NoFeesToClaim", cs |-> cs, remainder |-> 0]
        ELSE IF closed.err # "Ok" THEN [err |-> closed.err, cs |-> closed.cs, remainder |-> 0]
        ELSE [err |-> "Ok", cs |-> closed.cs, remainder |-> remainder]

RouteCreatorRemainderHandle(cs, vault_amount) ==
    LET remainder == vault_amount
        closed == close_day(cs)
    IN  IF ~is_day_in_progress(cs)
        THEN [err |-> "DistributionNotStarted", cs |-> cs, remainder |-> 0]
        ELSE IF closed.err # "Ok" THEN [err |-> closed.err, cs |-> closed.cs, remainder |-> 0]
        ELSE [err |-> "Ok", cs |-> closed.cs, remainder |-> remainder]

route_creator_remainder ==
    LET r == IF distribution_config.initialized /\ crank_state_initialized
             THEN RouteCreatorRemainderHandle(crank_state, program_token_b_vault)
             ELSE [err |-> "AccountNotInitialized", cs |-> crank_state, remainder |-> 0]
    IN  /\ crank_state' = committed(r.err, crank_state, r.cs)
        /\ program_token_b_vault' = IF r.err = "Ok" THEN program_token_b_vault - r.remainder
                                    ELSE program_token_b_vault
        /\ last' = IF r.err = "Ok"
                   THEN [NoEvent EXCEPT !.op = "route_creator_remainder",
                                        !.creator_remainder = r.remainder]
                   ELSE Failed("route_creator_remainder", r.err)
        /\ UNCHANGED <<now, distribution_config, vault_stats, depositor_record, sol_vault, usdc_vault,
                       program_token_a_vault, day_open>>

\* ------------------------------------------ initialize_distribution_config
InitializeDistributionConfigHandle_AnyShare(params) ==
    IF ~(params.y0_allocation > 0) THEN "InvalidY0Allocation"
    ELSE IF params.creator_wallet = "default" THEN "CreatorWalletNotProvided"
    ELSE IF params.quote_mint = "default" THEN "InvalidPosition"
    ELSE "Ok"

InitializeDistributionConfigHandle(params) ==
    IF ~(params.y0_allocation > 0) THEN "InvalidY0Allocation"
    ELSE IF ~(params.investor_fee_share_bps <= 10000) THEN "InvalidDepositAmount"
    ELSE IF params.creator_wallet = "default" THEN "CreatorWalletNotProvided"
    ELSE IF params.quote_mint = "default" THEN "InvalidPosition"
    ELSE "Ok"

\* The dust threshold stored for the supplied one.
stored_min_payout_AsSupplied(min_payout_lamports) == min_payout_lamports

stored_min_payout(min_payout_lamports) ==
    IF min_payout_lamports = 0 THEN DEFAULT_MIN_PAYOUT_LAMPORTS ELSE min_payout_lamports

initialize_distribution_config(params) ==
    LET err == IF distribution_config.initialized THEN "AccountAlreadyInUse"
               ELSE InitializeDistributionConfigHandle(params)
    IN  /\ distribution_config' =
               IF err = "Ok"
               THEN [initialized |-> TRUE,
                     y0_allocation |-> params.y0_allocation,
                     investor_fee_share_bps |-> params.investor_fee_share_bps,
                     min_payout_lamports |-> stored_min_payout(params.min_payout_lamports),
                     daily_cap_lamports |-> params.daily_cap_lamports,
                     creator_wallet |-> params.creator_wallet,
                     quote_mint |-> params.quote_mint]
               ELSE distribution_config
        /\ last' = Failed("initialize_distribution_config", err)
        /\ UNCHANGED <<now, crank_state, vault_stats, depositor_record, sol_vault, usdc_vault,
                       program_token_a_vault, program_token_b_vault, day_open>>

\* ------------------------------------------------------ deposit / withdraw
\* The current balances of the stake ledger are modelled; the cumulative
\* statistics no instruction reads back (totals deposited / withdrawn, counts,
\* timestamps) are left out, and so are the maximum deposit amounts, which lie
\* above the lowered u64 maxima.
validate_deposit_amounts(sol_amount, usdc_amount) ==
    IF ~(sol_amount > 0 \/ usdc_amount > 0) THEN "InvalidDepositAmount"
    ELSE IF ~(sol_amount = 0 \/ sol_amount >= MIN_SOL_DEPOSIT) THEN "InvalidDepositAmount"
    ELSE IF ~(usdc_amount = 0 \/ usdc_amount >= MIN_USDC_DEPOSIT) THEN "InvalidDepositAmount"
    ELSE "Ok"

add_deposit(rec, sol_amount, usdc_amount) ==
    IF checked_add(rec.current_sol_balance, sol_amount, U64_MAX_LAMPORTS) = None
    THEN [err |-> "MathOverflow", rec |-> rec]
    ELSE IF checked_add(rec.current_usdc_balance, usdc_amount, U64_MAX) = None
    THEN [err |-> "MathOverflow", rec |-> rec]
    ELSE [err |-> "Ok",
          rec |-> [initialized |-> TRUE,
                   current_sol_balance |-> rec.current_sol_balance + sol_amount,
                   current_usdc_balance |-> rec.current_usdc_balance + usdc_amount]]

add_deposits(vs, sol_amount, usdc_amount) ==
    IF checked_add(vs.current_total_sol, sol_amount, U64_MAX_LAMPORTS) = None
    THEN [err |-> "MathOverflow", vs |-> vs]
    ELSE IF checked_add(vs.current_total_usdc, usdc_amount, U64_MAX) = None
    THEN [err |-> "MathOverflow", vs |-> vs]
    ELSE [err |-> "Ok",
          vs |-> [initialized |-> TRUE,
                  current_total_sol |-> vs.current_total_sol + sol_amount,
                  current_total_usdc |-> vs.current_total_usdc + usdc_amount]]

deposit(investor, sol_amount, usdc_amount) ==
    LET v == validate_deposit_amounts(sol_amount, usdc_amount)
        d == add_deposit(depositor_record[investor], sol_amount, usdc_amount)
        s == add_deposits(vault_stats, sol_amount, usdc_amount)
        err == IF v # "Ok" THEN v ELSE IF d.err # "Ok" THEN d.err ELSE s.err
    IN  /\ vault_stats.current_total_usdc + usdc_amount <= MaxLocked
        /\ vault_stats.current_total_sol + sol_amount <= MaxLockedSol
        /\ depositor_record' = IF err = "Ok"
                               THEN [depositor_record EXCEPT ![investor] = d.rec]
                               ELSE depositor_record
        /\ vault_stats' = IF err = "Ok" THEN s.vs ELSE vault_stats
        /\ sol_vault' = IF err = "Ok" THEN sol_vault + sol_amount ELSE sol_vault
        /\ usdc_vault' = IF err = "Ok" THEN usdc_vault + usdc_amount ELSE usdc_vault
        /\ last' = Failed("deposit", err)
        /\ UNCHANGED <<now, distribution_config, crank_state, program_token_a_vault,
                       program_token_b_vault, day_open>>

validate_withdrawal_amounts(sol_lamports, vault_amount, sol_amount, usdc_amount) ==
    IF ~(sol_amount > 0 \/ usdc_amount > 0) THEN "InvalidDepositAmount"
    ELSE IF ~(sol_amount = 0 \/ sol_amount >= MIN_SOL_DEPOSIT) THEN "InvalidDepositAmount"
    ELSE IF ~(usdc_amount = 0 \/ usdc_amount >= MIN_USDC_DEPOSIT) THEN "InvalidDepositAmount"
    ELSE IF sol_amount > 0 /\ ~(sol_lamports >= sol_amount) THEN "InsufficientTokenBalance"
    ELSE IF usdc_amount > 0 /\ ~(vault_amount >= usdc_amount) THEN "InsufficientTokenBalance"
    ELSE "Ok"

\* A transfer made by cross-program invocation out of a program-derived
\* account goes through only if the signer seeds passed with it derive that
\* account; otherwise the runtime refuses the invocation.
invoke_signed_transfer(from, signer_seeds) ==
    IF from = signer_seeds THEN "Ok" ELSE "PrivilegeEscalation"

\* From the SOL vault, which is its own authority, under the fee collector's
\* seeds.
process_sol_withdrawal == invoke_signed_transfer("sol_vault", "fee_collector")

\* From the USDC vault, whose token authority is the fee collector, under the
\* fee collector's seeds.
process_usdc_withdrawal == invoke_signed_transfer("fee_collector", "fee_collector")

add_withdrawal_Saturating(rec, sol_amount, usdc_amount) ==
    [err |-> "Ok",
     rec |-> [rec EXCEPT
                 !.current_sol_balance =
                     IF sol_amount <= @ THEN @ - sol_amount ELSE 0,
                 !.current_usdc_balance =
                     IF usdc_amount <= @ THEN @ - usdc_amount ELSE 0]]

add_withdrawal(rec, sol_amount, usdc_amount) ==
    IF ~(sol_amount <= rec.current_sol_balance)
    THEN [err |-> "InsufficientBalance", rec |-> rec]
    ELSE IF ~(usdc_amount <= rec.current_usdc_balance)
    THEN [err |-> "InsufficientBalance", rec |-> rec]
    ELSE [err |-> "Ok",
          rec |-> [rec EXCEPT
                      !.current_sol_balance = rec.current_sol_balance - sol_amount,
                      !.current_usdc_balance = rec.current_usdc_balance - usdc_amount]]

add_withdrawals_Unrecorded(vs, sol_amount, usdc_amount) == [err |-> "Ok", vs |-> vs]

add_withdrawals(vs, sol_amount, usdc_amount) ==
    IF checked_sub(vs.current_total_sol, sol_amount) = None
    THEN [err |-> "MathOverflow", vs |-> vs]
    ELSE IF checked_sub(vs.current_total_usdc, usdc_amount) = None
    THEN [err |-> "MathOverflow", vs |-> vs]
    ELSE [err |-> "Ok",
          vs |-> [vs EXCEPT !.current_total_sol = vs.current_total_sol - sol_amount,
                            !.current_total_usdc = vs.current_total_usdc - usdc_amount]]

withdraw(investor, sol_amount, usdc_amount) ==
    LET v == validate_withdrawal_amounts(sol_vault, usdc_vault, sol_amount, usdc_amount)
        w == add_withdrawal(depositor_record[investor], sol_amount, usdc_amount)
        s == add_withdrawals(vault_stats, sol_amount, usdc_amount)
        err == IF ~(depositor_record[investor].initialized /\ vault_stats.initialized)
               THEN "AccountNotInitialized"
               ELSE IF v # "Ok" THEN v
               ELSE IF sol_amount > 0 /\ process_sol_withdrawal # "Ok"
                    THEN process_sol_withdrawal
               ELSE IF usdc_amount > 0 /\ process_usdc_withdrawal # "Ok"
                    THEN process_usdc_withdrawal
               ELSE IF w.err # "Ok" THEN w.err ELSE s.err
    IN  /\ depositor_record' = IF err = "Ok"
                               THEN [depositor_record EXCEPT ![investor] = w.rec]
                               ELSE depositor_record
        /\ vault_stats' = IF err = "Ok" THEN s.vs ELSE vault_stats
        /\ sol_vault' = IF err = "Ok" THEN sol_vault - sol_amount ELSE sol_vault
        /\ usdc_vault' = IF err = "Ok" THEN usdc_vault - usdc_amount ELSE usdc_vault
        /\ last' = Failed("withdraw", err)
        /\ UNCHANGED <<now, distribution_config, crank_state, program_token_a_vault,
                       program_token_b_vault, day_open>>

\* ------------------------------------------------------- claim_fees_to_pda
\* The AMM's claim_position_fee either fails or credits the two fee vaults
\* with amounts the program does not control.
ClaimFeesToPDAHandle_Unchecked(cpi_ok, base_before, base_after) ==
    IF ~cpi_ok THEN "NoFeesToClaim" ELSE "Ok"

ClaimFeesToPDAHandle(cpi_ok, base_before, base_after) ==
    LET base_claimed == IF base_after >= base_before THEN base_after - base_before ELSE 0
    IN  IF ~cpi_ok THEN "NoFeesToClaim"
        ELSE IF base_claimed # 0 THEN "BaseFeesDetected"
        ELSE "Ok"

claim_fees_to_pda(cpi_ok, base_fees, quote_fees) ==
    LET err == ClaimFeesToPDAHandle(cpi_ok, program_token_a_vault,
                                    program_token_a_vault + base_fees)
    IN  /\ program_token_b_vault + quote_fees <= MaxQuoteVault
        /\ program_token_a_vault' = IF err = "Ok" THEN program_token_a_vault + base_fees
                                    ELSE program_token_a_vault
        /\ program_token_b_vault' = IF err = "Ok" THEN program_token_b_vault + quote_fees
                                    ELSE program_token_b_vault
        /\ day_open' = IF err = "Ok" /\ is_day_in_progress(crank_state)
                          /\ day_open.claimed # None
                       THEN [day_open EXCEPT !.claimed = @ + quote_fees]
                       ELSE day_open
        /\ last' = Failed("claim_fees_to_pda", err)
        /\ UNCHANGED <<now, distribution_config, crank_state, vault_stats, depositor_record,
                       sol_vault, usdc_vault>>

\* --------------------------------------------------------- distribute_fees
DistributeFeesHandle(base_vault, quote_vault, base_param, quote_param) ==
    LET base_amount == IF base_param = 0 THEN base_vault ELSE base_param
        quote_amount == IF quote_param = 0 THEN quote_vault ELSE quote_param
    IN  IF base_amount > 0 /\ ~(base_vault >= base_amount)
        THEN [err |-> "InsufficientTokenBalance", base |-> 0, quote |-> 0]
        ELSE IF quote_amount > 0 /\ ~(quote_vault >= quote_amount)
        THEN [err |-> "InsufficientTokenBalance", base |-> 0, quote |-> 0]
        ELSE [err |-> "Ok", base |-> base_amount, quote |-> quote_amount]

distribute_fees(base_param, quote_param) ==
    LET r == DistributeFeesHandle(program_token_a_vault, program_token_b_vault,
                                  base_param, quote_param)
    IN  /\ program_token_a_vault' = program_token_a_vault - r.base
        /\ program_token_b_vault' = program_token_b_vault - r.quote
        /\ last' = Failed("distribute_fees", r.err)
        /\ UNCHANGED <<now, distribution_config, crank_state, vault_stats, depositor_record,
                       sol_vault, usdc_vault, day_open>>

\* ------------------------------------------------------------------- clock
Tick(dt) ==
    /\ now + dt <= MaxNow
    /\ now' = now + dt
    /\ last' = Failed("tick", "Ok")
    /\ UNCHANGED <<distribution_config, crank_state, vault_stats, depositor_record,
                   sol_vault, usdc_vault, program_token_a_vault, program_token_b_vault, day_open>>

\* ------------------------------------------------------------ specification
Init ==
    /\ now = 1
    /\ distribution_config =
           [initialized |-> FALSE, y0_allocation |-> 0, investor_fee_share_bps |-> 0,
            min_payout_lamports |-> 0, daily_cap_lamports |-> 0,
            creator_wallet |-> "default", quote_mint |-> "default"]
    /\ crank_state = CrankStateNew
    /\ vault_stats = [initialized |-> FALSE, current_total_sol |-> 0, current_total_usdc |-> 0]
    /\ depositor_record =
           [i \in Investors |-> [initialized |-> FALSE, current_sol_balance |-> 0,
                                 current_usdc_balance |-> 0]]
    /\ sol_vault = 0
    /\ usdc_vault = 0
    /\ program_token_a_vault = 0
    /\ program_token_b_vault = 0
    /\ day_open = NoDay
    /\ last = NoEvent

FeeParams == {day_open.investor_fee_quote} \cup OtherFees

Next ==
    \/ \E params \in ConfigParams : initialize_distribution_config(params)
    \/ \E i \in Investors, l \in SolAmounts, a \in UsdcAmounts : deposit(i, l, a)
    \/ \E i \in Investors, l \in SolAmounts, a \in UsdcAmounts : withdraw(i, l, a)
    \/ \E ok \in CpiOutcomes, b \in BaseClaims, q \in QuoteClaims : claim_fees_to_pda(ok, b, q)
    \/ \E b \in SweepAmounts, q \in SweepAmounts : distribute_fees(b, q)
    \/ \E p \in PageIndexes, n \in InvestorsCounts, m \in Mints, f \in ForeignVaultAmounts :
           crank_fee_distribution(p, n, m, f)
    \/ \E i \in Investors, fee \in FeeParams : distribute_to_investor(i, fee)
    \/ route_creator_remainder
    \/ \E dt \in ClockSteps : Tick(dt)

Spec == Init /\ [][Next]_vars

\* ================================================================== claims
AccountsReady == distribution_config.initialized /\ vault_stats.initialized

\* The raw pro-rata payout of section 4.3, as the specification states it.
SpecRawPayout(investor_balance, total_locked, pool) ==
    IF total_locked = 0 THEN 0
    ELSE (pool * ((investor_balance * 10000) \div total_locked)) \div 10000

DayDust == crank_state.carry_over - day_open.carry_over

\* The close found in the vault what the open saw less the day's payouts:
\* no fees were claimed into or swept out of the vault during the day.
DayUndisturbed ==
    last.creator_remainder
        = day_open.quote_fees_available - crank_state.daily_distributed

\* C1: at the close of a day whose vault only the payouts touched,
\* payouts + dust + creator remainder equals the quote fees available at
\* open plus the carry-over at open.
C1_Conservation ==
    (last.op = "route_creator_remainder" /\ last.err = "Ok" /\ DayUndisturbed)
        => crank_state.daily_distributed + DayDust + last.creator_remainder
               = day_open.quote_fees_available + day_open.carry_over

\* C2: whenever a daily cap is configured, daily_distributed never exceeds it.
C2_CapRespected ==
    distribution_config.daily_cap_lamports > 0
        => crank_state.daily_distributed <= distribution_config.daily_cap_lamports

C2_Witness ==
    /\ distribution_config.daily_cap_lamports > 0
    /\ crank_state.daily_distributed = distribution_config.daily_cap_lamports
    /\ last.op = "distribute_to_investor" /\ last.err = "DailyCapExceeded"

\* C3: every payout of a day is the one the pool frozen at the day's open
\* gives: a successful distribute_to_investor pays (or withholds as dust)
\* what calculate_investor_payout yields for that day's investor_fee_quote.
C3_FrozenPool ==
    (last.op = "distribute_to_investor" /\ last.err = "Ok")
        => /\ last.total_investor_fee = day_open.investor_fee_quote
           /\ last.payout + last.dust =
                  SpecRawPayout(depositor_record[last.investor].current_usdc_balance,
                                vault_stats.current_total_usdc,
                                day_open.investor_fee_quote)

\* C4: the amount paid to investors in a day never exceeds that day's
\* investor pool, the investor_fee_quote
\* floor(quote_at_open * min(share_bps, f_locked_bps) / 10000) of its open.
C4_InvestorShareCeiling ==
    crank_state.day_state # 0
        => /\ crank_state.daily_distributed <= day_open.investor_fee_quote
           /\ day_open.investor_fee_quote * 10000
                  <= day_open.quote_fees_available
                         * distribution_config.investor_fee_share_bps

\* C5: once the day is Closed and 86400 seconds have passed since the last
\* open, a page-0 crank call (base vault 0, quote vault > 0, matching mint,
\* cap not exhausted) succeeds and opens day current_day + 1.
C5_PeriodicCycle ==
    [][last'.op = "crank_fee_distribution" => \A n \in InvestorsCounts :
          ( /\ crank_fee_distribution(0, n, "quote", 1000)
            /\ AccountsReady
            /\ is_day_closed(crank_state)
            /\ now - crank_state.last_distribution_timestamp >= 86400
            /\ crank_state.current_day < U32_MAX
            /\ program_token_a_vault = 0
            /\ program_token_b_vault > 0 )
          => ( /\ last'.err = "Ok"
               /\ crank_state'.day_state = 1
               /\ crank_state'.current_day = crank_state.current_day + 1 )]_vars

\* C6: a crank call that would open a day within 86400 seconds of the
\* previous open fails and leaves CrankState unchanged, and every day-open
\* after the first comes at least 86400 seconds after the previous one.
C6_Cooldown ==
    [][ /\ last'.op = "crank_fee_distribution" =>
           \A p \in PageIndexes, n \in InvestorsCounts, m \in Mints,
             f \in ForeignVaultAmounts :
             ( /\ crank_fee_distribution(p, n, m, f)
               /\ ~is_day_in_progress(crank_state)
               /\ crank_state.last_distribution_timestamp # 0
               /\ now - crank_state.last_distribution_timestamp < 86400 )
             => (last'.err # "Ok" /\ crank_state' = crank_state)
        /\ ( /\ crank_state'.current_day # crank_state.current_day
             /\ crank_state.last_distribution_timestamp # 0 )
             => now - crank_state.last_distribution_timestamp >= 86400 ]_vars

C6_Witness ==
    /\ last.op = "crank_fee_distribution" /\ last.err # "Ok"
    /\ ~is_day_in_progress(crank_state)
    /\ crank_state.last_distribution_timestamp # 0
    /\ now - crank_state.last_distribution_timestamp < 86400
    /\ program_token_a_vault = 0 /\ program_token_b_vault > 0

\* C7 (as claimed): a crank call whose page_index differs from
\* pagination_cursor always fails with InvalidPaginationCursor and changes
\* nothing; an accepted call advances the cursor by 1 and
\* investors_processed_today by investors_count.
C7_CursorMonotonicity_AsClaimed ==
    [][(last'.op = "crank_fee_distribution" /\ AccountsReady) =>
       \A p \in PageIndexes, n \in InvestorsCounts, m \in Mints, f \in ForeignVaultAmounts :
          crank_fee_distribution(p, n, m, f)
          => /\ p # crank_state.pagination_cursor
                 => (last'.err = "InvalidPaginationCursor" /\ crank_state' = crank_state)
             /\ last'.err = "Ok"
                 => /\ crank_state'.pagination_cursor = crank_state.pagination_cursor + 1
                    /\ crank_state'.investors_processed_today =
                           crank_state.investors_processed_today + n ]_vars

\* C7 (amended): a crank call whose page_index differs from pagination_cursor
\* always fails and changes nothing, with InvalidPaginationCursor unless the
\* day is Closed (then with DayAlreadyClosed); an accepted call carries the
\* index the cursor held and advances the cursor by 1 and
\* investors_processed_today by investors_count.
C7_CursorMonotonicity ==
    [][(last'.op = "crank_fee_distribution" /\ AccountsReady) =>
       \A p \in PageIndexes, n \in InvestorsCounts, m \in Mints, f \in ForeignVaultAmounts :
          crank_fee_distribution(p, n, m, f)
          => /\ p # crank_state.pagination_cursor
                 => /\ crank_state' = crank_state
                    /\ last'.err = IF is_day_closed(crank_state)
                                   THEN "DayAlreadyClosed"
                                   ELSE "InvalidPaginationCursor"
             /\ last'.err = "Ok"
                 => /\ p = crank_state.pagination_cursor
                    /\ crank_state'.pagination_cursor = crank_state.pagination_cursor + 1
                    /\ crank_state'.investors_processed_today =
                           crank_state.investors_processed_today + n ]_vars

C7_Witness ==
    /\ last.op = "crank_fee_distribution" /\ last.err = "InvalidPaginationCursor"
    /\ is_day_in_progress(crank_state)
    /\ crank_state.pagination_cursor = 2
    /\ crank_state.investors_processed_today = 2

\* C8: of two crank calls made one after the other with the same page_index
\* against the same cursor, the first (an otherwise acceptable page) succeeds,
\* the second fails with InvalidPaginationCursor, and the cursor advances by 1.
C8_PageCompareAndSwap ==
    [][last'.op = "crank_fee_distribution" =>
       \A p \in PageIndexes, n \in InvestorsCounts, f \in ForeignVaultAmounts :
          /\ ( /\ crank_fee_distribution(p, n, "quote", f)
               /\ last.op = "crank_fee_distribution" /\ last.err = "Ok"
               /\ last.page_index = p )
             => /\ last'.err = "InvalidPaginationCursor"
                /\ crank_state' = crank_state
                /\ crank_state.pagination_cursor = p + 1
          /\ ( /\ crank_fee_distribution(p, n, "quote", f)
               /\ AccountsReady
               /\ ~is_day_closed(crank_state)
               /\ p = IF is_day_in_progress(crank_state)
                      THEN crank_state.pagination_cursor ELSE 0
               /\ program_token_a_vault = 0 /\ program_token_b_vault > 0
               /\ (is_day_in_progress(crank_state)
                      /\ distribution_config.daily_cap_lamports > 0)
                     => crank_state.daily_distributed < distribution_config.daily_cap_lamports
               /\ p + 1 <= U32_MAX
               /\ is_day_in_progress(crank_state)
                     => crank_state.investors_processed_today + n <= U32_MAX
               /\ program_token_b_vault + crank_state.carry_over <= U64_MAX )
             => (last'.err = "Ok" /\ crank_state'.pagination_cursor = p + 1) ]_vars

C8_Witness ==
    /\ last.op = "crank_fee_distribution" /\ last.err = "InvalidPaginationCursor"
    /\ is_day_in_progress(crank_state)
    /\ crank_state.pagination_cursor = 1
    /\ program_token_a_vault = 0 /\ program_token_b_vault > 0
    /\ distribution_config.daily_cap_lamports > 0

\* C9: while a day is InProgress no step opens another day or resets the
\* day's counters: current_day and last_distribution_timestamp stay, and
\* pagination_cursor, investors_processed_today and daily_distributed never
\* go down.
C9_SingleDayInProgress ==
    [][is_day_in_progress(crank_state)
          => /\ crank_state'.current_day = crank_state.current_day
             /\ crank_state'.last_distribution_timestamp
                    = crank_state.last_distribution_timestamp
             /\ crank_state'.pagination_cursor >= crank_state.pagination_cursor
             /\ crank_state'.investors_processed_today
                    >= crank_state.investors_processed_today
             /\ crank_state'.daily_distributed >= crank_state.daily_distributed
             /\ crank_state'.day_state \in {1, 2} ]_vars

C9_Witness ==
    /\ is_day_in_progress(crank_state)
    /\ now - crank_state.last_distribution_timestamp >= 86400
    /\ last.op = "crank_fee_distribution" /\ last.err = "Ok"
    /\ crank_state.pagination_cursor = 2
    /\ crank_state.daily_distributed > 0
    /\ crank_state.current_day = 1

\* C10: a successful distribute_to_investor whose pro-rata payout is below
\* min_payout transfers nothing, leaves daily_distributed and adds the whole
\* payout to carry_over; otherwise it transfers the whole payout and leaves
\* carry_over; a failing call changes nothing.
C10_DustSuppression ==
    [][last'.op = "distribute_to_investor" => \A i \in Investors, fee \in FeeParams :
          distribute_to_investor(i, fee)
          => LET raw == SpecRawPayout(depositor_record[i].current_usdc_balance,
                                      vault_stats.current_total_usdc, fee)
             IN  IF last'.err # "Ok"
                 THEN /\ crank_state' = crank_state
                      /\ program_token_b_vault' = program_token_b_vault
                 ELSE IF raw < distribution_config.min_payout_lamports
                 THEN /\ program_token_b_vault' = program_token_b_vault
                      /\ crank_state'.daily_distributed = crank_state.daily_distributed
                      /\ crank_state'.carry_over = crank_state.carry_over + raw
                 ELSE /\ program_token_b_vault' = program_token_b_vault - raw
                      /\ crank_state'.daily_distributed
                             = crank_state.daily_distributed + raw
                      /\ crank_state'.carry_over = crank_state.carry_over ]_vars

C10_Witness ==
    /\ last.op = "distribute_to_investor" /\ last.err = "Ok"
    /\ last.payout = 0 /\ last.dust > 0
    /\ last.dust < distribution_config.min_payout_lamports
    /\ crank_state.carry_over >= last.dust
    /\ crank_state.daily_distributed > 0

\* ============================================== arithmetic on drawn inputs
\* The two pure computations, applied to inputs drawn from bounded sets: the
\* per-investor payout, and the fee split of a page call on accounts holding
\* the drawn values.
ArithY0s == {100}
ArithShares == {5000, 10000}
ArithMinPayouts == {33, 300, 1000}
ArithLockedTotals == {0, 3, 700, 1000}
ArithBalances == {0, 1, 100, 300, 600}
ArithPools == {100, 1000}
ArithQuoteBalances == {1000}

InitArithmetic ==
    /\ now = 1
    /\ \E y \in ArithY0s, s \in ArithShares, m \in ArithMinPayouts :
           distribution_config =
               [initialized |-> TRUE, y0_allocation |-> y, investor_fee_share_bps |-> s,
                min_payout_lamports |-> m, daily_cap_lamports |-> 0,
                creator_wallet |-> "creator", quote_mint |-> "quote"]
    /\ crank_state = CrankStateNew
    /\ \E t \in ArithLockedTotals :
           /\ vault_stats = [initialized |-> TRUE, current_total_sol |-> 0, current_total_usdc |-> t]
           /\ usdc_vault = t
    /\ sol_vault = 0
    /\ depositor_record \in
           [Investors -> {[initialized |-> TRUE, current_sol_balance |-> 0,
                            current_usdc_balance |-> b] :
                              b \in ArithBalances}]
    /\ program_token_a_vault = 0
    /\ program_token_b_vault \in ArithQuoteBalances
    /\ day_open = NoDay
    /\ last = NoEvent

apply_calculate_investor_payout(investor, total_investor_fee) ==
    LET r == calculate_investor_payout(depositor_record[investor].current_usdc_balance,
                                       vault_stats.current_total_usdc, total_investor_fee,
                                       distribution_config.min_payout_lamports)
    IN  /\ last' = [NoEvent EXCEPT !.op = "calculate_investor_payout",
                                   !.investor = investor,
                                   !.total_investor_fee = total_investor_fee,
                                   !.payout = r.payout, !.dust = r.dust]
        /\ UNCHANGED <<now, distribution_config, crank_state, vault_stats, depositor_record,
                       sol_vault, usdc_vault, program_token_a_vault, program_token_b_vault, day_open>>

NextArithmetic ==
    \/ \E i \in Investors, fee \in ArithPools : apply_calculate_investor_payout(i, fee)
    \/ \E p \in PageIndexes, n \in InvestorsCounts, f \in ForeignVaultAmounts :
           crank_fee_distribution(p, n, "quote", f)

SpecArithmetic == InitArithmetic /\ [][NextArithmetic]_vars

MaxBaseVault == 1
BaseTransfers == {1}

transfer_to_base_vault(amount) ==
    /\ program_token_a_vault + amount <= MaxBaseVault
    /\ program_token_a_vault' = program_token_a_vault + amount
    /\ last' = Failed("transfer_to_base_vault", "Ok")
    /\ UNCHANGED <<now, distribution_config, crank_state, vault_stats, depositor_record,
                   sol_vault, usdc_vault, program_token_b_vault, day_open>>

NextBaseFees ==
    \/ \E params \in ConfigParams : initialize_distribution_config(params)
    \/ \E i \in Investors, l \in SolAmounts, a \in UsdcAmounts : deposit(i, l, a)
    \/ \E ok \in CpiOutcomes, b \in BaseClaims, q \in QuoteClaims : claim_fees_to_pda(ok, b, q)
    \/ \E a \in BaseTransfers : transfer_to_base_vault(a)
    \/ \E b \in SweepAmounts, q \in SweepAmounts : distribute_fees(b, q)
    \/ \E p \in PageIndexes, n \in InvestorsCounts, m \in Mints, f \in ForeignVaultAmounts :
           crank_fee_distribution(p, n, m, f)
    \/ \E i \in Investors, fee \in FeeParams : distribute_to_investor(i, fee)
    \/ route_creator_remainder

SpecBaseFees == Init /\ [][NextBaseFees]_vars

\* The cursor a page call compares page_index with: the day's cursor, or 0
\* when the call itself opens the day.
CursorAtCheck ==
    IF is_day_in_progress(crank_state) THEN crank_state.pagination_cursor ELSE 0

C14_OpenEffects ==
    [][ /\ ( /\ last'.op = "crank_fee_distribution" /\ last'.err = "Ok"
             /\ ~is_day_in_progress(crank_state) )
           => crank_state' =
                  [crank_state EXCEPT !.current_day = crank_state.current_day + 1,
                                      !.last_distribution_timestamp = now,
                                      !.daily_distributed = 0,
                                      !.pagination_cursor = 1,
                                      !.investors_processed_today = last'.investors_count,
                                      !.day_state = 1]
        /\ LET r == start_new_day(crank_state, now + 86400)
           IN  r.err = "Ok"
               => r.cs = [crank_state EXCEPT
                              !.current_day = crank_state.current_day + 1,
                              !.last_distribution_timestamp = now + 86400,
                              !.daily_distributed = 0,
                              !.pagination_cursor = 0,
                              !.investors_processed_today = 0,
                              !.day_state = 1] ]_vars

C14_Witness ==
    /\ last.op = "crank_fee_distribution" /\ last.err = "Ok"
    /\ last.page_index = 0 /\ last.investors_count = 2
    /\ crank_state.current_day = 1
    /\ crank_state.last_distribution_timestamp = now /\ now > 1
    /\ crank_state.pagination_cursor = 1
    /\ crank_state.investors_processed_today = 2
    /\ crank_state.daily_distributed = 0

\* ============================================================ the daily cap
\* A distribute_to_investor call for this investor and pool would pay a
\* non-zero amount that takes daily_distributed above the configured cap.
PayoutOverCap(investor, total_investor_fee) ==
    LET c == calculate_investor_payout(depositor_record[investor].current_usdc_balance,
                                       vault_stats.current_total_usdc, total_investor_fee,
                                       distribution_config.min_payout_lamports)
    IN  /\ AccountsReady /\ depositor_record[investor].initialized
        /\ is_day_in_progress(crank_state)
        /\ distribution_config.daily_cap_lamports > 0
        /\ c.payout > 0
        /\ crank_state.daily_distributed + c.payout > distribution_config.daily_cap_lamports

PayoutOverflows(investor, total_investor_fee) ==
    LET c == calculate_investor_payout(depositor_record[investor].current_usdc_balance,
                                       vault_stats.current_total_usdc, total_investor_fee,
                                       distribution_config.min_payout_lamports)
    IN  crank_state.daily_distributed + c.payout > U64_MAX

\* C15 (as claimed): when daily_cap > 0 and daily_distributed + payout >
\* daily_cap for a non-zero payout, distribute_to_investor fails with
\* DailyCapExceeded, transfers nothing and leaves daily_distributed and
\* carry_over.
C15_CapBindsByFailing_AsClaimed ==
    [][last'.op = "distribute_to_investor" =>
       \A i \in Investors, fee \in FeeParams :
          (distribute_to_investor(i, fee) /\ PayoutOverCap(i, fee))
          => /\ last'.err = "DailyCapExceeded"
             /\ program_token_b_vault' = program_token_b_vault
             /\ crank_state' = crank_state ]_vars

\* C15 (amended): in that case the call fails, transfers nothing (not even
\* the part that would fit under the cap) and leaves daily_distributed and
\* carry_over; the error is DailyCapExceeded unless daily_distributed +
\* payout does not fit in a u64, which the checked addition reports first as
\* MathOverflow.
C15_CapBindsByFailing ==
    [][last'.op = "distribute_to_investor" =>
       \A i \in Investors, fee \in FeeParams :
          (distribute_to_investor(i, fee) /\ PayoutOverCap(i, fee))
          => /\ last'.err = IF PayoutOverflows(i, fee) THEN "MathOverflow"
                            ELSE "DailyCapExceeded"
             /\ program_token_b_vault' = program_token_b_vault
             /\ crank_state' = crank_state ]_vars

C15_Witness ==
    /\ last.op = "distribute_to_investor" /\ last.err = "DailyCapExceeded"
    /\ \E i \in Investors :
           PayoutOverCap(i, day_open.investor_fee_quote)
               /\ ~PayoutOverflows(i, day_open.investor_fee_quote)
    /\ crank_state.daily_distributed > 0
    /\ crank_state.daily_distributed < distribution_config.daily_cap_lamports
          + program_token_b_vault
    /\ program_token_b_vault > 0

\* ===================================================== failing page calls
CrankFailures ==
    {"DayAlreadyClosed", "InvalidPaginationCursor", "BaseFeesDetected", "NoFeesToClaim",
     "InvalidPosition", "DailyCapExceeded", "MathOverflow", "AccountNotInitialized"}

C17_TransferThenCredit ==
    [][/\ last'.op = "distribute_to_investor"
          => /\ crank_state'.daily_distributed - crank_state.daily_distributed
                  = program_token_b_vault - program_token_b_vault'
             /\ last'.err = "Ok"
                  => last'.payout = program_token_b_vault - program_token_b_vault'
             /\ last'.err # "Ok"
                  => /\ crank_state' = crank_state
                     /\ program_token_b_vault' = program_token_b_vault
                     /\ usdc_vault' = usdc_vault
                     /\ vault_stats' = vault_stats
                     /\ depositor_record' = depositor_record
       /\ last'.op # "distribute_to_investor"
          => \/ crank_state'.daily_distributed = crank_state.daily_distributed
             \/ /\ last'.op = "crank_fee_distribution" /\ last'.err = "Ok"
                /\ ~is_day_in_progress(crank_state)
                /\ crank_state'.daily_distributed = 0 ]_vars

\* A payout larger than the fee vault balance was refused after investors
\* had already been paid in the same day.
C17_Witness ==
    /\ last.op = "distribute_to_investor" /\ last.err = "InsufficientFunds"
    /\ is_day_in_progress(crank_state)
    /\ crank_state.daily_distributed > 0
    /\ \E i \in Investors, fee \in FeeParams :
          /\ depositor_record[i].initialized
          /\ DistributeToInvestorHandle(crank_state, distribution_config,
                 depositor_record[i].current_usdc_balance, vault_stats.current_total_usdc,
                 program_token_b_vault, fee).err = "InsufficientFunds"

\* ================================================== the fee split, unwrapped
\* C18: a page call that succeeds has computed f_locked_bps =
\* floor(total_locked * 10000 / Y0), eligible_investor_share_bps =
\* min(investor_fee_share_bps, f_locked_bps) and investor_fee_quote =
\* floor(quote_fees_available * eligible_investor_share_bps / 10000) exactly,
\* also when floor(total_locked * 10000 / Y0) does not fit in 16 bits; it
\* never continues with a wrapped value.
C18_FeeSplitExact ==
    (last.op = "crank_fee_distribution" /\ last.err = "Ok")
        => LET exact_f_locked_bps == (vault_stats.current_total_usdc * 10000)
                                         \div distribution_config.y0_allocation
               exact_share_bps == Min(distribution_config.investor_fee_share_bps,
                                      exact_f_locked_bps)
           IN  last.investor_fee_quote
                   = (program_token_b_vault * exact_share_bps) \div 10000

\* ==================================================== carry-over in the pool
\* C19: dust recorded in carry_over is part of the pool from which later
\* payouts are computed: a distribute_to_investor call made for the pool
\* investor_fee_quote while CrankState holds carry_over computes the
\* investor's amount from investor_fee_quote + carry_over.
C19_CarryOverRedistributed ==
    [][(last'.op = "distribute_to_investor" /\ last'.err = "Ok")
       => last'.payout + last'.dust
             = SpecRawPayout(depositor_record[last'.investor].current_usdc_balance,
                             vault_stats.current_total_usdc,
                             last'.total_investor_fee + crank_state.carry_over) ]_vars

\* ================================================== the creator's remainder
\* The program with the day's claims recorded in day_open.claimed, and
\* without distribute_fees: every other instruction and the clock.
InitAudited ==
    /\ now = 1
    /\ distribution_config =
           [initialized |-> FALSE, y0_allocation |-> 0, investor_fee_share_bps |-> 0,
            min_payout_lamports |-> 0, daily_cap_lamports |-> 0,
            creator_wallet |-> "default", quote_mint |-> "default"]
    /\ crank_state = CrankStateNew
    /\ vault_stats = [initialized |-> FALSE, current_total_sol |-> 0, current_total_usdc |-> 0]
    /\ depositor_record =
           [i \in Investors |-> [initialized |-> FALSE, current_sol_balance |-> 0,
                                 current_usdc_balance |-> 0]]
    /\ sol_vault = 0
    /\ usdc_vault = 0
    /\ program_token_a_vault = 0
    /\ program_token_b_vault = 0
    /\ day_open = [NoDay EXCEPT !.claimed = 0]
    /\ last = NoEvent

NextNoSweep ==
    \/ \E c \in ConfigParams : initialize_distribution_config(c)
    \/ \E i \in Investors, l \in SolAmounts, a \in UsdcAmounts : deposit(i, l, a)
    \/ \E i \in Investors, l \in SolAmounts, a \in UsdcAmounts : withdraw(i, l, a)
    \/ \E ok \in CpiOutcomes, b \in BaseClaims, q \in QuoteClaims : claim_fees_to_pda(ok, b, q)
    \/ \E p \in PageIndexes, n \in InvestorsCounts, m \in Mints, f \in ForeignVaultAmounts :
           crank_fee_distribution(p, n, m, f)
    \/ \E i \in Investors, f \in FeeParams : distribute_to_investor(i, f)
    \/ route_creator_remainder
    \/ \E dt \in ClockSteps : Tick(dt)

SpecNoSweep == InitAudited /\ [][NextNoSweep]_vars

ValidConfigParams(params) ==
    /\ params.y0_allocation > 0
    /\ params.investor_fee_share_bps <= 10000
    /\ params.creator_wallet # "default"
    /\ params.quote_mint # "default"

\* C21: initialize_distribution_config fails and creates no configuration
\* unless y0_allocation > 0, investor_fee_share_bps <= 10000, creator_wallet
\* is not the default key and quote_mint is not the default key; it can
\* succeed at most once (an existing configuration is never rewritten), so
\* wherever a DistributionConfig exists, y0_allocation > 0 and
\* investor_fee_share_bps <= 10000.
C21_ConfigValidation ==
    [][/\ last'.op = "initialize_distribution_config"
          => \A params \in ConfigParams :
                initialize_distribution_config(params)
                => /\ (~ValidConfigParams(params) \/ distribution_config.initialized)
                         => /\ last'.err # "Ok"
                            /\ distribution_config' = distribution_config
                   /\ (ValidConfigParams(params) /\ ~distribution_config.initialized)
                         => /\ last'.err = "Ok"
                            /\ distribution_config'.initialized
                            /\ distribution_config'.y0_allocation = params.y0_allocation
                            /\ distribution_config'.investor_fee_share_bps
                                   = params.investor_fee_share_bps
       /\ distribution_config.initialized => distribution_config' = distribution_config
       /\ distribution_config'.initialized
          => /\ distribution_config'.y0_allocation > 0
             /\ distribution_config'.investor_fee_share_bps <= 10000
             /\ distribution_config'.creator_wallet # "default"
             /\ distribution_config'.quote_mint # "default" ]_vars

\* A call with investor_fee_share_bps above 10000 was refused and left no
\* configuration behind.
C21_Witness ==
    /\ last.op = "initialize_distribution_config"
    /\ last.err = "InvalidDepositAmount"
    /\ ~distribution_config.initialized

\* ============================================================ the day number
\* C22: current_day never decreases and changes only by +1, and only in a
\* crank call that successfully opens a day; distribute_to_investor,
\* route_creator_remainder, deposit, withdraw, page calls of a day in
\* progress and all failed calls leave it unchanged.
C22_CurrentDayMonotone ==
    [][/\ \/ crank_state'.current_day = crank_state.current_day
          \/ /\ crank_state'.current_day = crank_state.current_day + 1
             /\ last'.op = "crank_fee_distribution" /\ last'.err = "Ok"
             /\ ~is_day_in_progress(crank_state)
             /\ is_day_in_progress(crank_state')
       /\ last'.err # "Ok" => crank_state'.current_day = crank_state.current_day
       /\ last'.op \in {"distribute_to_investor", "route_creator_remainder",
                        "deposit", "withdraw"}
             => crank_state'.current_day = crank_state.current_day
       /\ is_day_in_progress(crank_state)
             => crank_state'.current_day = crank_state.current_day
       /\ ( /\ last'.op = "crank_fee_distribution" /\ last'.err = "Ok"
            /\ ~is_day_in_progress(crank_state) )
             => crank_state'.current_day = crank_state.current_day + 1 ]_vars

\* Day 1 was opened, paid from, and closed, and is still day 1.
C22_Witness ==
    /\ last.op = "route_creator_remainder" /\ last.err = "Ok"
    /\ crank_state.current_day = 1
    /\ crank_state.daily_distributed > 0
    /\ crank_state.pagination_cursor > 1

\* ==================================================== payouts outside a day
\* C23 (as claimed): with the configuration, the stake ledger and the
\* investor's record in place, distribute_to_investor fails with
\* DistributionNotStarted, transferring nothing and leaving daily_distributed
\* and carry_over, whenever day_state is NotStarted (0) or Closed (2);
\* payouts happen only between a day's opening page call and its close.
C23_PayoutOnlyInDay_AsClaimed ==
    [][last'.op = "distribute_to_investor" =>
       /\ \A i \in Investors, fee \in FeeParams :
             ( /\ distribute_to_investor(i, fee)
               /\ AccountsReady /\ depositor_record[i].initialized
               /\ crank_state.day_state \in {0, 2} )
             => /\ last'.err = "DistributionNotStarted"
                /\ program_token_b_vault' = program_token_b_vault
                /\ crank_state' = crank_state
       /\ program_token_b_vault' # program_token_b_vault
             => (crank_state.day_state = 1 /\ crank_state'.day_state = 1) ]_vars

\* C23 (amended): as above for a Closed day; while day_state is NotStarted
\* the CrankState account does not exist yet and the call is rejected with
\* AccountNotInitialized, again transferring and changing nothing.
C23_PayoutOnlyInDay ==
    [][last'.op = "distribute_to_investor" =>
       /\ \A i \in Investors, fee \in FeeParams :
             ( /\ distribute_to_investor(i, fee)
               /\ AccountsReady /\ depositor_record[i].initialized
               /\ crank_state.day_state \in {0, 2} )
             => /\ last'.err = IF crank_state.day_state = 2
                               THEN "DistributionNotStarted"
                               ELSE "AccountNotInitialized"
                /\ program_token_b_vault' = program_token_b_vault
                /\ crank_state' = crank_state
       /\ program_token_b_vault' # program_token_b_vault
             => (crank_state.day_state = 1 /\ crank_state'.day_state = 1) ]_vars

\* A payout was refused on a Closed day although fees lay in the vault and the
\* investor held a stake.
C23_Witness ==
    /\ last.op = "distribute_to_investor" /\ last.err = "DistributionNotStarted"
    /\ crank_state.day_state = 2
    /\ program_token_b_vault > 0
    /\ \E i \in Investors :
          /\ depositor_record[i].initialized
          /\ depositor_record[i].current_usdc_balance = vault_stats.current_total_usdc
          /\ depositor_record[i].current_usdc_balance > 0

\* ========================================================= after the close
\* C24: a crank_fee_distribution call made while day_state is Closed (2)
\* fails with DayAlreadyClosed and leaves CrankState unchanged, for every
\* page_index and however much time has passed since
\* last_distribution_timestamp.
C24_ClosedIsFinal ==
    [][(last'.op = "crank_fee_distribution" /\ crank_state.day_state = 2)
          => /\ last'.err = "DayAlreadyClosed"
             /\ crank_state' = crank_state
             /\ day_open' = day_open ]_vars

\* The call was refused a full day after the open, with quote fees waiting
\* in the vault and no base fees.
C24_Witness ==
    /\ last.op = "crank_fee_distribution" /\ last.err = "DayAlreadyClosed"
    /\ crank_state.day_state = 2
    /\ now - crank_state.last_distribution_timestamp >= 86400
    /\ program_token_a_vault = 0 /\ program_token_b_vault > 0
    /\ vault_stats.current_total_usdc > 0

\* ================================================ one payout per investor
\* C25: within one distribution day a second distribute_to_investor call for
\* an investor already processed that day neither transfers tokens nor adds
\* dust to carry_over again.
C25_OnePayoutPerInvestor ==
    [][( /\ last.op = "distribute_to_investor" /\ last.err = "Ok"
         /\ last'.op = "distribute_to_investor" /\ last'.err = "Ok"
         /\ last'.investor = last.investor
         /\ crank_state'.current_day = crank_state.current_day )
          => /\ program_token_b_vault' = program_token_b_vault
             /\ crank_state'.daily_distributed = crank_state.daily_distributed
             /\ crank_state'.carry_over = crank_state.carry_over ]_vars

\* ================================================= ways out of the fee vault
\* C26: the quote fee vault balance decreases only through an investor payout
\* made while a day is InProgress (which adds the same amount to
\* daily_distributed) or through the creator remainder transfer at close; no
\* other operation, distribute_fees included, moves quote fees out.
C26_VaultOutflows ==
    [][program_token_b_vault' < program_token_b_vault
          => \/ /\ last'.op = "distribute_to_investor" /\ last'.err = "Ok"
                /\ is_day_in_progress(crank_state)
                /\ crank_state'.daily_distributed - crank_state.daily_distributed
                       = program_token_b_vault - program_token_b_vault'
             \/ /\ last'.op = "route_creator_remainder" /\ last'.err = "Ok"
                /\ is_day_in_progress(crank_state)
                /\ is_day_closed(crank_state') ]_vars

\* ================================================ every open day can close
\* The program with the close call scheduled fairly: whoever operates the
\* crank keeps calling route_creator_remainder, so a call that stays possible
\* is eventually made.
SpecFairClose == Init /\ [][Next]_vars /\ WF_vars(route_creator_remainder)

\* C27: whenever day_state is InProgress, route_creator_remainder succeeds,
\* whatever the pages and investors processed, the cap, daily_distributed and
\* the vault balance (a zero balance makes no transfer); so with the close
\* call scheduled fairly every InProgress day eventually becomes Closed.
C27_EveryDayCloses ==
    /\ [][(last'.op = "route_creator_remainder" /\ is_day_in_progress(crank_state))
             => /\ last'.err = "Ok"
                /\ is_day_closed(crank_state')
                /\ last'.creator_remainder = program_token_b_vault
                /\ program_token_b_vault' = 0 ]_vars
    /\ is_day_in_progress(crank_state) ~> is_day_closed(crank_state)

\* A day was closed with an empty vault, its cap exhausted and several pages
\* processed.
C27_Witness ==
    /\ last.op = "route_creator_remainder" /\ last.err = "Ok"
    /\ last.creator_remainder = 0
    /\ is_day_closed(crank_state)
    /\ distribution_config.daily_cap_lamports > 0
    /\ crank_state.daily_distributed = distribution_config.daily_cap_lamports
    /\ crank_state.pagination_cursor > 1

\* ========================================================= the stake ledger
\* Deposits and withdrawals alone, with amounts below the minimum, at the
\* minimum and above it, so that calls fail on the amount, on the investor's
\* balance and on a missing record as well as succeed.
LedgerAmounts == {0, 500, 1000, 1700}

NextLedger ==
    \/ \E i \in Investors, l \in SolAmounts, a \in LedgerAmounts : deposit(i, l, a)
    \/ \E i \in Investors, l \in SolAmounts, a \in LedgerAmounts : withdraw(i, l, a)

SpecLedger == Init /\ [][NextLedger]_vars

RECURSIVE SumOfBalances(_)
SumOfBalances(investors) ==
    IF investors = {} THEN 0
    ELSE LET i == CHOOSE x \in investors : TRUE
         IN  depositor_record[i].current_usdc_balance + SumOfBalances(investors \ {i})

\* weight_bps as calculate_investor_payout computes it.
weight_bps(investor) ==
    IF vault_stats.current_total_usdc > 0
    THEN (depositor_record[investor].current_usdc_balance * 10000)
             \div vault_stats.current_total_usdc
    ELSE 0

RECURSIVE SumOfWeights(_)
SumOfWeights(investors) ==
    IF investors = {} THEN 0
    ELSE LET i == CHOOSE x \in investors : TRUE
         IN  weight_bps(i) + SumOfWeights(investors \ {i})

C29_CarryOverNeverReduced ==
    [][/\ crank_state'.carry_over >= crank_state.carry_over
       /\ crank_state'.carry_over # crank_state.carry_over
             => /\ last'.op = "distribute_to_investor" /\ last'.err = "Ok"
                /\ last'.dust > 0
                /\ crank_state'.carry_over = crank_state.carry_over + last'.dust
       /\ last'.op \in {"crank_fee_distribution", "route_creator_remainder"}
             => crank_state'.carry_over = crank_state.carry_over
       /\ start_new_day(crank_state, now + 86400).cs.carry_over = crank_state.carry_over
       /\ \A n \in InvestorsCounts :
             advance_cursor(crank_state, n).cs.carry_over = crank_state.carry_over
       /\ close_day(crank_state).cs.carry_over = crank_state.carry_over ]_vars

\* The close emptied the vault and left the recorded carry_over standing.
C29_Witness ==
    /\ last.op = "route_creator_remainder" /\ last.err = "Ok"
    /\ last.creator_remainder > 0
    /\ program_token_b_vault = 0
    /\ crank_state.carry_over > 0
    /\ crank_state.pagination_cursor > 1

\* ======================================================== the day counters
\* C30: in every reachable state distribution_count = current_day when
\* day_state is NotStarted (0) or Closed (2), and distribution_count =
\* current_day - 1 when day_state is InProgress (1): every opened day is
\* closed exactly once before another is opened.
C30_DayCountersInStep ==
    /\ crank_state.day_state \in {0, 1, 2}
    /\ crank_state.day_state \in {0, 2}
          => crank_state.distribution_count = crank_state.current_day
    /\ crank_state.day_state = 1
          => crank_state.distribution_count = crank_state.current_day - 1

\* Day 1 is closed and counted once; a further close was refused.
C30_Witness ==
    /\ crank_state.day_state = 2
    /\ crank_state.current_day = 1 /\ crank_state.distribution_count = 1
    /\ last.op = "route_creator_remainder" /\ last.err = "DistributionNotStarted"
    /\ crank_state.investors_processed_today > 1

\* =================================================== how a day comes to be open
\* C31: a day is only ever opened by a page call that is itself accepted: in
\* every reachable state, day_state = InProgress (1) implies
\* pagination_cursor >= 1 and current_day >= 1, and day_state = NotStarted (0)
\* implies current_day = 0, pagination_cursor = 0, daily_distributed = 0 and
\* last_distribution_timestamp = 0.
C31_OpenedByAcceptedPage ==
    /\ crank_state.day_state = 1
          => /\ crank_state.pagination_cursor >= 1
             /\ crank_state.current_day >= 1
             /\ crank_state.last_distribution_timestamp > 0
    /\ crank_state.day_state = 0
          => /\ crank_state.current_day = 0
             /\ crank_state.pagination_cursor = 0
             /\ crank_state.daily_distributed = 0
             /\ crank_state.last_distribution_timestamp = 0

\* A page call that had already run start_new_day was refused for want of
\* quote fees, and no day is open.
C31_Witness ==
    /\ last.op = "crank_fee_distribution" /\ last.err = "NoFeesToClaim"
    /\ AccountsReady
    /\ crank_state.day_state = 0
    /\ start_new_day(init_if_needed(crank_state), now).cs.day_state = 1
    /\ program_token_b_vault = 0

\* ======================================================= an empty fee vault
\* C32 (as claimed): a crank_fee_distribution call fails with NoFeesToClaim
\* and does not open a day or advance the cursor whenever the quote fee vault
\* balance is 0, including on later pages of a day whose vault has already
\* been emptied by investor payouts.
C32_EmptyVaultRefused_AsClaimed ==
    [][(last'.op = "crank_fee_distribution" /\ AccountsReady
            /\ program_token_b_vault = 0)
          => \A p \in PageIndexes, n \in InvestorsCounts, f \in ForeignVaultAmounts :
                crank_fee_distribution(p, n, "quote", f)
                => /\ last'.err = "NoFeesToClaim"
                   /\ crank_state' = crank_state
                   /\ day_open' = day_open ]_vars

\* C32 (amended): such a call always fails, opens no day and does not advance
\* the cursor, on the opening page and on every later page; the error is
\* NoFeesToClaim unless one of the three checks that precede the fee check
\* fails first: the day is Closed (DayAlreadyClosed), page_index differs from
\* the cursor (InvalidPaginationCursor), or the base-token fee vault is not
\* empty (BaseFeesDetected).
C32_EmptyVaultRefused ==
    [][(last'.op = "crank_fee_distribution" /\ AccountsReady
            /\ program_token_b_vault = 0)
          => \A p \in PageIndexes, n \in InvestorsCounts, f \in ForeignVaultAmounts :
                crank_fee_distribution(p, n, "quote", f)
                => /\ last'.err = IF crank_state.day_state = 2 THEN "DayAlreadyClosed"
                                  ELSE IF p # CursorAtCheck THEN "InvalidPaginationCursor"
                                  ELSE IF program_token_a_vault # 0 THEN "BaseFeesDetected"
                                  ELSE "NoFeesToClaim"
                   /\ crank_state' = crank_state
                   /\ day_open' = day_open ]_vars

\* A later page of a day was refused after the investor payouts had taken
\* everything the vault held at the open.
C32_Witness ==
    /\ last.op = "crank_fee_distribution" /\ last.err = "NoFeesToClaim"
    /\ is_day_in_progress(crank_state)
    /\ crank_state.pagination_cursor >= 1
    /\ program_token_b_vault = 0
    /\ day_open.quote_fees_available > 0
    /\ crank_state.daily_distributed = day_open.quote_fees_available

\* ================================================ page calls at the daily cap
\* The day is in progress under a cap that daily_distributed has reached.
CapReached ==
    /\ AccountsReady
    /\ crank_state.day_state = 1
    /\ distribution_config.daily_cap_lamports > 0
    /\ crank_state.daily_distributed >= distribution_config.daily_cap_lamports

\* C33 (as claimed): when daily_cap > 0 and daily_distributed has reached
\* daily_cap, every further crank_fee_distribution page call in that day
\* fails with DailyCapExceeded and does not advance pagination_cursor or
\* investors_processed_today; a page call succeeds under a cap only while
\* daily_distributed < daily_cap.
C33_PagesStopAtCap_AsClaimed ==
    [][last'.op = "crank_fee_distribution" =>
       /\ CapReached
             => /\ last'.err = "DailyCapExceeded"
                /\ crank_state' = crank_state
       /\ (last'.err = "Ok" /\ distribution_config.daily_cap_lamports > 0)
             => crank_state'.daily_distributed
                    < distribution_config.daily_cap_lamports ]_vars

\* C33 (amended): in that case every further page call of the day fails and
\* advances neither counter; the error is DailyCapExceeded unless one of the
\* checks that precede the cap check fails first: page_index differs from
\* the cursor (InvalidPaginationCursor), the base-token fee vault is not
\* empty (BaseFeesDetected), the quote fee vault is empty (NoFeesToClaim),
\* the mint is not the configured one (InvalidPosition), or investor_fee_quote
\* + carry_over does not fit in a u64 (MathOverflow).  A page call succeeds
\* under a cap only while daily_distributed < daily_cap.
C33_PagesStopAtCap ==
    [][last'.op = "crank_fee_distribution" =>
       /\ CapReached
             => /\ crank_state' = crank_state
                /\ \A p \in PageIndexes, n \in InvestorsCounts, m \in Mints,
                      f \in ForeignVaultAmounts :
                      crank_fee_distribution(p, n, m, f)
                      => LET q == IF m = "quote" THEN program_token_b_vault ELSE f
                             fee == investor_fee_quote(distribution_config,
                                        vault_stats.current_total_usdc, q)
                         IN  last'.err =
                                 IF p # crank_state.pagination_cursor
                                 THEN "InvalidPaginationCursor"
                                 ELSE IF program_token_a_vault # 0 THEN "BaseFeesDetected"
                                 ELSE IF q = 0 THEN "NoFeesToClaim"
                                 ELSE IF m # distribution_config.quote_mint
                                 THEN "InvalidPosition"
                                 ELSE IF fee + crank_state.carry_over > U64_MAX
                                 THEN "MathOverflow"
                                 ELSE "DailyCapExceeded"
       /\ (last'.err = "Ok" /\ distribution_config.daily_cap_lamports > 0)
             => /\ crank_state'.daily_distributed
                       < distribution_config.daily_cap_lamports
                /\ crank_state.day_state = 1
                      => crank_state.daily_distributed
                             < distribution_config.daily_cap_lamports ]_vars

\* The next page of the day was refused with fees still in the vault, after
\* the payouts had used up the cap.
C33_Witness ==
    /\ last.op = "crank_fee_distribution" /\ last.err = "DailyCapExceeded"
    /\ CapReached
    /\ crank_state.daily_distributed = distribution_config.daily_cap_lamports
    /\ crank_state.pagination_cursor >= 1
    /\ program_token_a_vault = 0 /\ program_token_b_vault > 0

\* ======================================================= checked additions
\* The fee split a page call made now with this mint would compute, added
\* to carry_over, does not fit in a u64.
PoolOverflows(quote_mint, foreign_amount) ==
    LET q == IF quote_mint = "quote" THEN program_token_b_vault ELSE foreign_amount
    IN  /\ AccountsReady
        /\ investor_fee_quote(distribution_config, vault_stats.current_total_usdc, q)
               + crank_state.carry_over > U64_MAX

\* A distribute_to_investor call for this investor and pool, made in a day in
\* progress, has a payout that takes daily_distributed, or a dust that takes
\* carry_over, past the u64 maximum.
CreditOverflows(investor, total_investor_fee) ==
    LET c == calculate_investor_payout(depositor_record[investor].current_usdc_balance,
                                       vault_stats.current_total_usdc, total_investor_fee,
                                       distribution_config.min_payout_lamports)
    IN  /\ AccountsReady /\ depositor_record[investor].initialized
        /\ crank_state.day_state = 1
        /\ \/ c.payout > 0 /\ crank_state.daily_distributed + c.payout > U64_MAX
           \/ c.dust > 0 /\ crank_state.carry_over + c.dust > U64_MAX

\* The transfer of that payout is refused by the token program before the
\* program adds it to daily_distributed: no cap is configured (so the sum is
\* not formed ahead of the transfer) and the vault holds less than the payout.
TransferRefusedFirst(investor, total_investor_fee) ==
    LET c == calculate_investor_payout(depositor_record[investor].current_usdc_balance,
                                       vault_stats.current_total_usdc, total_investor_fee,
                                       distribution_config.min_payout_lamports)
    IN  /\ distribution_config.daily_cap_lamports = 0
        /\ c.payout > program_token_b_vault

\* C34 (as claimed): if investor_fee_quote + carry_over exceeds the u64
\* maximum, the crank page call fails with MathOverflow and leaves CrankState
\* unchanged (no day opened, cursor not advanced); likewise
\* distribute_to_investor fails with MathOverflow, transferring nothing, if
\* daily_distributed + payout or carry_over + dust would exceed the u64
\* maximum.
C34_CheckedAdditions_AsClaimed ==
    [][/\ last'.op = "crank_fee_distribution" =>
          \A p \in PageIndexes, n \in InvestorsCounts, m \in Mints,
             f \in ForeignVaultAmounts :
             (crank_fee_distribution(p, n, m, f) /\ PoolOverflows(m, f))
             => /\ last'.err = "MathOverflow"
                /\ crank_state' = crank_state
       /\ last'.op = "distribute_to_investor" =>
          \A i \in Investors, fee \in FeeParams :
             (distribute_to_investor(i, fee) /\ CreditOverflows(i, fee))
             => /\ last'.err = "MathOverflow"
                /\ program_token_b_vault' = program_token_b_vault
                /\ crank_state' = crank_state ]_vars

\* C34 (amended): in each of these cases the call fails, nothing is
\* transferred and CrankState is left unchanged: no sum ever wraps.  The
\* error is MathOverflow unless an earlier check fails first: for the page
\* call DayAlreadyClosed, InvalidPaginationCursor, BaseFeesDetected or
\* InvalidPosition; for distribute_to_investor the token program's refusal of
\* a payout larger than the vault balance when no daily cap is configured.
C34_CheckedAdditions ==
    [][/\ last'.op = "crank_fee_distribution" =>
          \A p \in PageIndexes, n \in InvestorsCounts, m \in Mints,
             f \in ForeignVaultAmounts :
             (crank_fee_distribution(p, n, m, f) /\ PoolOverflows(m, f))
             => /\ last'.err =
                       IF crank_state.day_state = 2 THEN "DayAlreadyClosed"
                       ELSE IF p # CursorAtCheck THEN "InvalidPaginationCursor"
                       ELSE IF program_token_a_vault # 0 THEN "BaseFeesDetected"
                       ELSE IF m # distribution_config.quote_mint THEN "InvalidPosition"
                       ELSE "MathOverflow"
                /\ crank_state' = crank_state
                /\ day_open' = day_open
       /\ last'.op = "distribute_to_investor" =>
          \A i \in Investors, fee \in FeeParams :
             (distribute_to_investor(i, fee) /\ CreditOverflows(i, fee))
             => /\ last'.err = IF TransferRefusedFirst(i, fee) THEN "InsufficientFunds"
                               ELSE "MathOverflow"
                /\ program_token_b_vault' = program_token_b_vault
                /\ crank_state' = crank_state
       /\ crank_state'.daily_distributed <= U64_MAX
       /\ crank_state'.carry_over <= U64_MAX ]_vars

\* A page of a day in progress was refused because the dust carried over,
\* added to the page's investor pool, no longer fits.
C34_Witness ==
    /\ last.op = "crank_fee_distribution" /\ last.err = "MathOverflow"
    /\ crank_state.day_state = 1
    /\ crank_state.carry_over > 0
    /\ PoolOverflows("quote", 0)
    /\ program_token_a_vault = 0

\* ============================================================ nothing locked
\* The program from the state in which every investor has withdrawn their
\* whole stake (the records and the statistics exist and hold 0), under either
\* valid configuration; investors deposit and withdraw again, fees are
\* claimed, and distribute_to_investor is called with pools of every size.
ZeroStakePools == {0, 1000, 2000, U64_MAX}

InitZeroStake ==
    /\ now = 1
    /\ \E params \in {c \in ConfigParams : ValidConfigParams(c)} :
           distribution_config =
               [initialized |-> TRUE,
                y0_allocation |-> params.y0_allocation,
                investor_fee_share_bps |-> params.investor_fee_share_bps,
                min_payout_lamports |-> params.min_payout_lamports,
                daily_cap_lamports |-> params.daily_cap_lamports,
                creator_wallet |-> params.creator_wallet,
                quote_mint |-> params.quote_mint]
    /\ crank_state = CrankStateNew
    /\ vault_stats = [initialized |-> TRUE, current_total_sol |-> 0, current_total_usdc |-> 0]
    /\ depositor_record =
           [i \in Investors |-> [initialized |-> TRUE, current_sol_balance |-> 0,
                                 current_usdc_balance |-> 0]]
    /\ sol_vault = 0
    /\ usdc_vault = 0
    /\ program_token_a_vault = 0
    /\ program_token_b_vault = 0
    /\ day_open = NoDay
    /\ last = NoEvent

NextZeroStake ==
    \/ \E i \in Investors, l \in SolAmounts, a \in UsdcAmounts : deposit(i, l, a)
    \/ \E i \in Investors, l \in SolAmounts, a \in UsdcAmounts : withdraw(i, l, a)
    \/ \E ok \in CpiOutcomes, b \in BaseClaims, q \in QuoteClaims : claim_fees_to_pda(ok, b, q)
    \/ \E p \in PageIndexes, n \in InvestorsCounts, f \in ForeignVaultAmounts :
           crank_fee_distribution(p, n, "quote", f)
    \/ \E i \in Investors, fee \in ZeroStakePools : distribute_to_investor(i, fee)
    \/ route_creator_remainder

SpecZeroStake == InitZeroStake /\ [][NextZeroStake]_vars

StakeSolAmounts == {0, 500000, MIN_SOL_DEPOSIT}

NextStake ==
    \/ \E i \in Investors, l \in StakeSolAmounts, a \in LedgerAmounts : deposit(i, l, a)
    \/ \E i \in Investors, l \in StakeSolAmounts, a \in LedgerAmounts : withdraw(i, l, a)

SpecStake == Init /\ [][NextStake]_vars

\* The investor's record exists and the requested SOL or USDC amount exceeds
\* the balance it holds.
OverBalance(investor, sol_amount, usdc_amount) ==
    /\ depositor_record[investor].initialized /\ vault_stats.initialized
    /\ \/ sol_amount > depositor_record[investor].current_sol_balance
       \/ usdc_amount > depositor_record[investor].current_usdc_balance

StakeUnchanged ==
    /\ depositor_record' = depositor_record
    /\ vault_stats' = vault_stats
    /\ sol_vault' = sol_vault
    /\ usdc_vault' = usdc_vault

\* C36 (as claimed): withdraw fails with InsufficientBalance and leaves the
\* depositor record, the vault statistics and all token balances unchanged
\* whenever the requested SOL or USDC amount exceeds that investor's own
\* recorded current balance.
C36_NoOverWithdrawal_AsClaimed ==
    [][last'.op = "withdraw" =>
       \A i \in Investors, l \in StakeSolAmounts, a \in LedgerAmounts :
          (withdraw(i, l, a) /\ OverBalance(i, l, a))
          => (last'.err = "InsufficientBalance" /\ StakeUnchanged) ]_vars

\* C36 (amended): such a call always fails and leaves the depositor record,
\* the vault statistics and all balances unchanged, so no investor can
\* withdraw more than they deposited and no recorded balance ever goes below
\* 0: a successful withdrawal takes exactly the requested amounts, each at
\* most the investor's recorded balance, out of the vaults, the record and
\* the statistics.  The error is InsufficientBalance only when the call
\* reaches the record check: an amount below the minimum (or no amount)
\* fails with InvalidDepositAmount, an amount above the vault's balance with
\* InsufficientTokenBalance, and a call asking for SOL is refused in the SOL
\* transfer, which is signed with the fee collector's seeds instead of the
\* SOL vault's.
C36_NoOverWithdrawal ==
    [][/\ last'.op = "withdraw" =>
          \A i \in Investors, l \in StakeSolAmounts, a \in LedgerAmounts :
             withdraw(i, l, a)
             => /\ OverBalance(i, l, a)
                   => /\ StakeUnchanged
                      /\ last'.err =
                            IF l = 0 /\ a = 0 THEN "InvalidDepositAmount"
                            ELSE IF (0 < l /\ l < MIN_SOL_DEPOSIT)
                                       \/ (0 < a /\ a < MIN_USDC_DEPOSIT)
                            THEN "InvalidDepositAmount"
                            ELSE IF l > sol_vault \/ a > usdc_vault
                            THEN "InsufficientTokenBalance"
                            ELSE IF l > 0 THEN "PrivilegeEscalation"
                            ELSE "InsufficientBalance"
                /\ last'.err = "Ok"
                   => /\ l <= depositor_record[i].current_sol_balance
                      /\ a <= depositor_record[i].current_usdc_balance
                      /\ sol_vault' = sol_vault - l
                      /\ usdc_vault' = usdc_vault - a
                      /\ depositor_record' =
                            [depositor_record EXCEPT
                                ![i].current_sol_balance = @ - l,
                                ![i].current_usdc_balance = @ - a]
                      /\ vault_stats'.current_total_sol = vault_stats.current_total_sol - l
                      /\ vault_stats'.current_total_usdc
                             = vault_stats.current_total_usdc - a
                /\ last'.err # "Ok" => StakeUnchanged
       /\ \A i \in Investors :
             /\ depositor_record'[i].current_sol_balance >= 0
             /\ depositor_record'[i].current_usdc_balance >= 0 ]_vars

\* An investor who had withdrawn their whole stake asked for USDC that the
\* vault could pay only out of the other investor's deposit, and was refused.
C36_Witness ==
    /\ last.op = "withdraw" /\ last.err = "InsufficientBalance"
    /\ depositor_record["i1"].initialized
    /\ depositor_record["i1"].current_usdc_balance = 0
    /\ depositor_record["i2"].current_usdc_balance = 1700
    /\ usdc_vault = 1700

\* ======================================================= the dust threshold
\* The program configured with a dust threshold of 0 (the default is stored),
\* of 1 and of 1000, with payouts asked for pools of 0 and more and for
\* investors whose stake is 0.
MinPayoutParams ==
    { ConfigOf(2000, 5000, 0, 0, "creator", "quote"),
      ConfigOf(2000, 10000, 1, 0, "creator", "quote"),
      ConfigOf(2000, 5000, 1000, 0, "creator", "quote") }

MinPayoutPools == {0, 1000, 2000}

NextMinPayout ==
    \/ \E params \in MinPayoutParams : initialize_distribution_config(params)
    \/ \E i \in Investors, l \in SolAmounts, a \in UsdcAmounts : deposit(i, l, a)
    \/ \E i \in Investors, l \in SolAmounts, a \in UsdcAmounts : withdraw(i, l, a)
    \/ \E ok \in CpiOutcomes, b \in BaseClaims, q \in QuoteClaims : claim_fees_to_pda(ok, b, q)
    \/ \E p \in PageIndexes, n \in InvestorsCounts, f \in ForeignVaultAmounts :
           crank_fee_distribution(p, n, "quote", f)
    \/ \E i \in Investors, fee \in MinPayoutPools : distribute_to_investor(i, fee)
    \/ route_creator_remainder

SpecMinPayout == Init /\ [][NextMinPayout]_vars

\* C37: initialize_distribution_config stores min_payout = 10,000
\* (DEFAULT_MIN_PAYOUT_LAMPORTS) when the supplied min_payout is 0 and stores
\* the supplied value otherwise; hence the stored dust threshold is always
\* > 0 and a computed payout of 0 is never transferred or counted.
C37_DefaultMinPayout ==
    [][/\ (last'.op = "initialize_distribution_config" /\ last'.err = "Ok") =>
          \A params \in MinPayoutParams :
             initialize_distribution_config(params)
             => distribution_config'.min_payout_lamports
                    = IF params.min_payout_lamports = 0 THEN 10000
                      ELSE params.min_payout_lamports
       /\ distribution_config'.initialized
             => distribution_config'.min_payout_lamports > 0
       /\ (last'.op = "distribute_to_investor" /\ last'.err = "Ok") =>
             /\ last'.payout = 0
                   => /\ program_token_b_vault' = program_token_b_vault
                      /\ crank_state'.daily_distributed = crank_state.daily_distributed
             /\ SpecRawPayout(depositor_record[last'.investor].current_usdc_balance,
                              vault_stats.current_total_usdc,
                              last'.total_investor_fee) = 0
                   => /\ last'.payout = 0 /\ last'.dust = 0
                      /\ program_token_b_vault' = program_token_b_vault
                      /\ crank_state' = crank_state ]_vars

\* Under the default threshold, stored for a supplied 0, a call for an
\* investor without stake computed 0: nothing was paid and nothing withheld.
C37_Witness ==
    /\ distribution_config.initialized
    /\ distribution_config.min_payout_lamports = DEFAULT_MIN_PAYOUT_LAMPORTS
    /\ last.op = "distribute_to_investor" /\ last.err = "Ok"
    /\ last.total_investor_fee > 0
    /\ depositor_record[last.investor].current_usdc_balance = 0
    /\ vault_stats.current_total_usdc > 0
    /\ last.payout = 0 /\ last.dust = 0
    /\ program_token_b_vault > 0

\* ================================================ base fees out of the claim
\* C38: claim_fees_to_pda fails with BaseFeesDetected, rolling back the whole
\* claim (the quote fees it brought included), whenever the claim increased
\* the program's base-token fee vault balance; a successful claim therefore
\* never increases the base vault balance, and no program operation does:
\* if the base vault is 0 before a sequence of program operations it is 0
\* after it.
C38_NoBaseFeesClaimed ==
    [][/\ last'.op = "claim_fees_to_pda" =>
          \A ok \in CpiOutcomes, b \in BaseClaims, q \in QuoteClaims :
             claim_fees_to_pda(ok, b, q)
             => /\ (ok /\ b > 0)
                   => /\ last'.err = "BaseFeesDetected"
                      /\ program_token_a_vault' = program_token_a_vault
                      /\ program_token_b_vault' = program_token_b_vault
                      /\ day_open' = day_open
                /\ last'.err = "Ok"
                   => /\ b = 0
                      /\ program_token_a_vault' = program_token_a_vault
                      /\ program_token_b_vault' = program_token_b_vault + q
       /\ last'.op # "transfer_to_base_vault"
             => /\ program_token_a_vault' <= program_token_a_vault
                /\ program_token_a_vault = 0 => program_token_a_vault' = 0 ]_vars

\* A claim that brought base fees along with quote fees was refused, and
\* neither vault kept anything of it.
C38_Witness ==
    /\ last.op = "claim_fees_to_pda" /\ last.err = "BaseFeesDetected"
    /\ program_token_a_vault = 0
    /\ program_token_b_vault = 0
    /\ distribution_config.initialized

\* ============================================ honorary-position preflight
\* validate_quote_only_fee_configuration: the five checks in the order of the
\* source, the range computed with the i32 subtraction of the build.
validate_quote_only_fee_configuration(config, overflow_checks) ==
    IF config.base_weight_bps # 0 THEN "BaseWeightMustBeZero"
    ELSE IF config.quote_weight_bps # 10000 THEN "QuoteWeightMustBe10000"
    ELSE IF ~(config.lower_tick <= -443636) THEN "LowerTickTooHigh"
    ELSE IF ~(config.upper_tick >= 443636) THEN "UpperTickTooLow"
    ELSE IF ~(config.fee_tier \in {100, 500, 3000, 10000}) THEN "InvalidFeeTier"
    ELSE LET tick_range == i32_sub(config.upper_tick, config.lower_tick, overflow_checks)
         IN  IF tick_range.panic THEN "ProgramFailedToComplete"
             ELSE IF ~(tick_range.value >= 887272) THEN "PositionRangeTooNarrow"
             ELSE IF ~(config.lower_tick <= -443636 /\ config.upper_tick >= 443636)
             THEN "PositionMustSpanFullRange"
             ELSE "Ok"

\* InitializeHonoraryPosition::handle: the preflight, then the two calls into
\* the AMM (create_position, add_liquidity with zero liquidity), then the
\* HonoraryPositionInitialized event carrying the configuration. The
\* instruction writes no account of this program.
InitializeHonoraryPositionHandle(config, overflow_checks, cpi_ok) ==
    LET preflight == validate_quote_only_fee_configuration(config, overflow_checks)
    IN  IF preflight # "Ok" THEN preflight
        ELSE IF ~cpi_ok THEN "CpiFailed"
        ELSE "Ok"

initialize_honorary_position(config, overflow_checks, cpi_ok) ==
    /\ last' = [NoEvent EXCEPT !.op = "initialize_honorary_position",
                               !.err = InitializeHonoraryPositionHandle(config, overflow_checks,
                                                                         cpi_ok),
                               !.config = config]
    /\ UNCHANGED <<now, distribution_config, crank_state, vault_stats, depositor_record,
                   sol_vault, usdc_vault, program_token_a_vault, program_token_b_vault, day_open>>

PreflightBaseWeights == {0, 1}
PreflightQuoteWeights == {9999, 10000}
PreflightLowerTicks == {I32_MIN, -443637, -443636, -443635, 0}
PreflightUpperTicks == {0, 443635, 443636, 443637, 2147040011, 2147040012, I32_MAX}
PreflightFeeTiers == {0, 100, 200, 500, 3000, 10000}
PreflightCpiOutcomes == {TRUE, FALSE}

HonoraryPositionConfigs ==
    { HonoraryPositionConfigOf(b, q, l, u, f) :
        b \in PreflightBaseWeights, q \in PreflightQuoteWeights, l \in PreflightLowerTicks,
        u \in PreflightUpperTicks, f \in PreflightFeeTiers }

NextPreflight ==
    \E c \in HonoraryPositionConfigs, oc \in BOOLEAN, ok \in PreflightCpiOutcomes :
        initialize_honorary_position(c, oc, ok)

SpecPreflight == Init /\ [][NextPreflight]_vars

\* The five conditions the claim lists.
QuoteOnlyFullRange(config) ==
    /\ config.base_weight_bps = 0
    /\ config.quote_weight_bps = 10000
    /\ config.lower_tick <= -443636
    /\ config.upper_tick >= 443636
    /\ config.fee_tier \in {100, 500, 3000, 10000}

\* The preflight let the handler through to the calls into the AMM.
PreflightAccepted == last.err \in {"Ok", "CpiFailed"}

\* C39: the honorary-position preflight accepts a configuration if and only
\* if base_weight_bps = 0, quote_weight_bps = 10000, lower_tick <= -443636,
\* upper_tick >= 443636 and fee_tier is one of 100, 500, 3000, 10000; every
\* other configuration is rejected before any position is created (the
\* instruction does not succeed), and PositionRangeTooNarrow and
\* PositionMustSpanFullRange never reject a configuration that passed the
\* earlier checks.
C39_Preflight ==
    last.op = "initialize_honorary_position"
    => /\ PreflightAccepted <=> QuoteOnlyFullRange(last.config)
       /\ ~QuoteOnlyFullRange(last.config) => last.err # "Ok"
       /\ last.err \notin {"PositionRangeTooNarrow", "PositionMustSpanFullRange"}

====
